---- MODULE Spec2Model ----
(***************************************************************************)
(* A model of grove: the note repository (internal/notes: note.go and      *)
(* store.go) and the interactive session (internal/ui/app.go).             *)
(*                                                                         *)
(* Go strings are modelled as sequences of one-character strings, so that  *)
(* the header that BuildFrontmatter writes is really parsed again by       *)
(* ParseFrontmatter.  Instants (time.Time) are integers counting clock     *)
(* ticks; TicksPerSec ticks make one second and SecPerDay seconds one      *)
(* calendar day.  The RFC 3339 text of an instant is modelled by the       *)
(* decimal digits of its whole seconds followed by "Z": like the real      *)
(* layout it drops the sub-second part of the instant.                     *)
(***************************************************************************)
EXTENDS Integers, Sequences, FiniteSets, TLC

(***************************************************************************)
(* Bounds of the model.                                                    *)
(***************************************************************************)
TicksPerSec == 2
SecPerDay == 1
MaxTitleLen == 2
MaxTags == 1
MaxInstant == 3
MaxClock == 2
MaxFiles == 2
MaxEntries == 2
MaxNotes == 2
MaxRows == 2
MaxPending == 1
MaxAsks == 2
MaxInput == 1
MaxHistory == 2
MaxPieces == 4
IntBits == 4

(***************************************************************************)
(* Package strings.                                                        *)
(***************************************************************************)
Min(S) == CHOOSE x \in S : \A y \in S : x <= y

WhiteSpace == {" ", "\t", "\n", "\r"}

\* s[lo:hi] of Go (0-based, hi exclusive); the caller checks lo <= hi <= len.
Slice(s, lo, hi) == SubSeq(s, lo + 1, hi)

\* s[lo:]
SliceFrom(s, lo) == SubSeq(s, lo + 1, Len(s))

HasPrefix(s, p) == Len(s) >= Len(p) /\ SubSeq(s, 1, Len(p)) = p

HasSuffix(s, p) == Len(s) >= Len(p) /\ SubSeq(s, Len(s) - Len(p) + 1, Len(s)) = p

\* strings.Index: the 0-based place of the first occurrence, or -1.
FirstOf(at) == IF at = {} THEN -1 ELSE Min(at)

Index(s, sub) ==
    FirstOf({i \in 0..(Len(s) - Len(sub)) :
                s[i + 1] = sub[1] /\ SubSeq(s, i + 1, i + Len(sub)) = sub})

Contains(s, sub) == Index(s, sub) # -1

RECURSIVE ReplaceAll(_, _, _)
\* ReplaceAll where the first occurrence of old is at i.
ReplaceFrom(s, old, new, i) ==
    IF i = -1 THEN s
    ELSE Slice(s, 0, i) \o new \o ReplaceAll(SliceFrom(s, i + Len(old)), old, new)

ReplaceAll(s, old, new) == ReplaceFrom(s, old, new, Index(s, old))

\* strings.Split with a non-empty separator: always at least one part.
RECURSIVE Split(_, _)
\* Split where the first separator is at i.
SplitFrom(s, sep, i) ==
    IF i = -1 THEN <<s>>
    ELSE <<Slice(s, 0, i)>> \o Split(SliceFrom(s, i + Len(sep)), sep)

Split(s, sep) == SplitFrom(s, sep, Index(s, sep))

RECURSIVE TrimLeft(_, _)
TrimLeft(s, cutset) ==
    IF s # <<>> /\ Head(s) \in cutset THEN TrimLeft(Tail(s), cutset) ELSE s

RECURSIVE TrimRight(_, _)
TrimRight(s, cutset) ==
    IF s # <<>> /\ s[Len(s)] \in cutset THEN TrimRight(SubSeq(s, 1, Len(s) - 1), cutset) ELSE s

Trim(s, cutset) == TrimRight(TrimLeft(s, cutset), cutset)

TrimSpace(s) == Trim(s, WhiteSpace)

RECURSIVE Join(_, _)
Join(parts, sep) ==
    IF parts = <<>> THEN <<>>
    ELSE IF Len(parts) = 1 THEN parts[1]
    ELSE parts[1] \o sep \o Join(Tail(parts), sep)

DigitChars == <<"0", "1", "2", "3", "4", "5", "6", "7", "8", "9">>

\* fmt's %d of a natural number.
RECURSIVE Itoa(_)
Itoa(n) ==
    IF n < 10 THEN <<DigitChars[n + 1]>>
    ELSE Itoa(n \div 10) \o <<DigitChars[(n % 10) + 1]>>

DigitValue(c) == (CHOOSE k \in 1..10 : DigitChars[k] = c) - 1

IsDigits(s) == s # <<>> /\ \A k \in 1..Len(s) : \E d \in 1..10 : DigitChars[d] = s[k]

RECURSIVE Atoi(_)
Atoi(s) ==
    IF Len(s) = 1 THEN DigitValue(s[1])
    ELSE 10 * Atoi(SubSeq(s, 1, Len(s) - 1)) + DigitValue(s[Len(s)])

(***************************************************************************)
(* Package time, as far as the repository uses it.                         *)
(***************************************************************************)
\* t.UTC().Format(time.RFC3339): whole seconds, the sub-second part dropped.
FormatRFC3339(t) == Itoa(t \div TicksPerSec) \o <<"Z">>

\* time.Parse(time.RFC3339, s)
ParseRFC3339(s) ==
    IF Len(s) >= 2 /\ s[Len(s)] = "Z" /\ IsDigits(SubSeq(s, 1, Len(s) - 1))
    THEN [ok |-> TRUE, t |-> Atoi(SubSeq(s, 1, Len(s) - 1)) * TicksPerSec]
    ELSE [ok |-> FALSE, t |-> 0]

\* t.Format("2006-01-02"): the calendar date, here the number of the day.
FormatDate(t) == Itoa(t \div (TicksPerSec * SecPerDay))

\* t.Unix()
Unix(t) == t \div TicksPerSec

(***************************************************************************)
(* note.go                                                                 *)
(***************************************************************************)
Dashes == <<"-", "-", "-">>
NLDashes == <<"\n", "-", "-", "-">>
KeyTitle == <<"t", "i", "t", "l", "e">>
KeyTags == <<"t", "a", "g", "s">>
KeyCreated == <<"c", "r", "e", "a", "t", "e", "d">>
KeyUpdated == <<"u", "p", "d", "a", "t", "e", "d">>
ColonSp == <<":", " ">>
ExtMd == <<".", "m", "d">>

\* type Note
Note(id, title, tags, created, updated, body, raw, filename) ==
    [ID |-> id, Title |-> title, Tags |-> tags, Created |-> created,
     Updated |-> updated, Body |-> body, Raw |-> raw, Filename |-> filename]

\* meta[key] of a Go map: the empty string when the key is absent.
MetaGet(meta, key) == IF key \in DOMAIN meta THEN meta[key] ELSE <<>>

\* meta[key] = val
MetaPut(meta, key, val) ==
    [k \in (DOMAIN meta) \cup {key} |-> IF k = key THEN val ELSE meta[k]]

\* One line of the header, its first colon at idx: a "key: value" line sets
\* meta[key].
ParseLine(meta, line, idx) ==
    IF idx = -1 THEN meta
    ELSE MetaPut(meta, TrimSpace(Slice(line, 0, idx)), TrimSpace(SliceFrom(line, idx + 1)))

\* The loop over the header's lines.
RECURSIVE ParseLines(_, _)
ParseLines(lines, meta) ==
    IF lines = <<>> THEN meta
    ELSE ParseLines(Tail(lines), ParseLine(meta, Head(lines), Index(Head(lines), <<":">>)))

NoMeta == [k \in {} |-> <<>>]

\* ParseFrontmatter from its line 38 on: found is strings.Index(content[3:],
\* "\n---").  content[4:end] with end < 4 is a run-time panic.
ParseHeader(content, found) ==
    IF found = -1 THEN [panic |-> FALSE, meta |-> NoMeta, body |-> content]
    ELSE IF 4 > found + 3 THEN [panic |-> TRUE, meta |-> NoMeta, body |-> <<>>]
    ELSE [panic |-> FALSE,
          meta |-> ParseLines(Split(Slice(content, 4, found + 3), <<"\n">>), NoMeta),
          body |-> TrimLeft(SliceFrom(content, found + 3 + 4), {"\n"})]

\* ParseFrontmatter after the CRLF normalisation.
ParseContent(content) ==
    IF ~HasPrefix(content, Dashes) THEN [panic |-> FALSE, meta |-> NoMeta, body |-> content]
    ELSE ParseHeader(content, Index(SliceFrom(content, 3), NLDashes))

\* ParseFrontmatter: (meta, body), or a run-time panic.
ParseFrontmatter(raw) == ParseContent(ReplaceAll(raw, <<"\r", "\n">>, <<"\n">>))

\* if t != "" { tags = append(tags, t) }
TagIfAny(t) == IF t # <<>> THEN <<t>> ELSE <<>>

RECURSIVE CleanTags(_)
CleanTags(parts) ==
    IF parts = <<>> THEN <<>>
    ELSE TagIfAny(Trim(TrimSpace(Head(parts)), {"\"", "'"})) \o CleanTags(Tail(parts))

\* parseTags after the brackets are trimmed.
SplitTags(inner) == IF inner = <<>> THEN <<>> ELSE CleanTags(Split(inner, <<",">>))

parseTags(raw) == SplitTags(Trim(raw, {"[", "]"}))

\* BuildFrontmatter with the created instant written on the updated line too.
BuildFrontmatterStaleUpdated(n) ==
    LET tags == IF Len(n.Tags) > 0
                THEN <<"[">> \o Join(n.Tags, <<",", " ">>) \o <<"]">>
                ELSE <<"[", "]">>
    IN  Dashes \o <<"\n">> \o KeyTitle \o ColonSp \o n.Title
        \o <<"\n">> \o KeyTags \o ColonSp \o tags
        \o <<"\n">> \o KeyCreated \o ColonSp \o FormatRFC3339(n.Created)
        \o <<"\n">> \o KeyUpdated \o ColonSp \o FormatRFC3339(n.Created)
        \o NLDashes \o <<"\n", "\n">>

BuildFrontmatter(n) ==
    LET tags == IF Len(n.Tags) > 0
                THEN <<"[">> \o Join(n.Tags, <<",", " ">>) \o <<"]">>
                ELSE <<"[", "]">>
    IN  Dashes \o <<"\n">> \o KeyTitle \o ColonSp \o n.Title
        \o <<"\n">> \o KeyTags \o ColonSp \o tags
        \o <<"\n">> \o KeyCreated \o ColonSp \o FormatRFC3339(n.Created)
        \o <<"\n">> \o KeyUpdated \o ColonSp \o FormatRFC3339(n.Updated)
        \o NLDashes \o <<"\n", "\n">>

\* title := meta["title"]; if title == "" { title = id }
TitleOr(t, id) == IF t = <<>> THEN id ELSE t

\* created := modTime; if t, err := time.Parse(...); err == nil { created = t }
TimeOr(parsed, modTime) == IF parsed.ok THEN parsed.t ELSE modTime

\* NoteFromRaw once ParseFrontmatter has returned p.
NoteFromParsed(id, filename, raw, modTime, p) ==
    [panic |-> p.panic,
     note |-> Note(id,
                   TitleOr(MetaGet(p.meta, KeyTitle), id),
                   parseTags(MetaGet(p.meta, KeyTags)),
                   TimeOr(ParseRFC3339(MetaGet(p.meta, KeyCreated)), modTime),
                   TimeOr(ParseRFC3339(MetaGet(p.meta, KeyUpdated)), modTime),
                   p.body, raw, filename)]

\* NoteFromRaw: the note, or the panic of ParseFrontmatter.
NoteFromRaw(id, filename, raw, modTime) ==
    NoteFromParsed(id, filename, raw, modTime, ParseFrontmatter(raw))

(***************************************************************************)
(* store.go.  The notes directory is a function from the names of its      *)
(* entries to the entries.  An entry is a regular file ("file"), a regular *)
(* file that cannot be opened ("locked") or a directory ("dir"); it holds  *)
(* its content and its modification time.                                  *)
(***************************************************************************)
NoNote == Note(<<>>, <<>>, <<>>, 0, 0, <<>>, <<>>, <<>>)

Entry(kind, raw, mtime) == [kind |-> kind, raw |-> raw, mtime |-> mtime]

\* filepath.Join(s.dir, id+".md"), the directory left out.
PathOf(id) == id \o ExtMd

\* strings.TrimSuffix(filepath.Base(path), ".md")
IdOfPath(path) == IF HasSuffix(path, ExtMd) THEN SubSeq(path, 1, Len(path) - Len(ExtMd)) ELSE path

\* os.Stat(path) returns no error.
StatOK(fs, path) == path \in DOMAIN fs

\* Store.loadFile
\* What loadFile returns once NoteFromRaw has returned r.
Loaded(r) ==
    IF r.panic THEN [err |-> "panic", note |-> NoNote] ELSE [err |-> "none", note |-> r.note]

\* Store.loadFile
loadFile(fs, path) ==
    IF ~StatOK(fs, path) THEN [err |-> "notexist", note |-> NoNote]
    ELSE IF fs[path].kind # "file" THEN [err |-> "io", note |-> NoNote]
    ELSE Loaded(NoteFromRaw(IdOfPath(path), path, fs[path].raw, fs[path].mtime))

\* Store.Load
Load(fs, id) == loadFile(fs, PathOf(id))

\* Store.Reload
Reload(fs, note) == loadFile(fs, note.Filename)

\* The less function of LoadAll's sort.Slice.
\* A less function that puts the older note first.
OlderFirst(x, y) == x.Updated < y.Updated

NewerFirst(x, y) == x.Updated > y.Updated

\* What sort.Slice may return for a set of notes: sort.Slice is not stable, so
\* every order of the notes that agrees with the less function.
SortedOrders(S) ==
    {s \in [1..Cardinality(S) -> S] :
        /\ \A i, j \in 1..Cardinality(S) : i # j => s[i] # s[j]
        /\ \A i, j \in 1..Cardinality(S) : i < j => ~NewerFirst(s[j], s[i])}

\* The entries LoadAll does not skip before loading them.
Listed(fs) == {name \in DOMAIN fs : ~(fs[name].kind = "dir" \/ ~HasSuffix(name, ExtMd))}

\* LoadAll once every listed entry is loaded: got maps the name to what
\* loadFile returned.  Entries whose loadFile returns an error are skipped; a
\* panic of the parser ends the listing (and the program).
Sorted(got) ==
    IF \E name \in DOMAIN got : got[name].err = "panic"
    THEN {[err |-> "panic", notes |-> <<>>]}
    ELSE {[err |-> "none", notes |-> s] :
            s \in SortedOrders({got[name].note : name \in {k \in DOMAIN got : got[k].err = "none"}})}

\* Store.LoadAll: the outcomes.
LoadAll(fs, readable) ==
    IF ~readable THEN {[err |-> "io", notes |-> <<>>]}
    ELSE Sorted([name \in Listed(fs) |-> loadFile(fs, name)])

\* os.WriteFile(path, content, 0644) at instant t.
WriteFile(fs, path, content, t) ==
    IF path \in DOMAIN fs /\ fs[path].kind # "file"
    THEN [err |-> "io", fs |-> fs]
    ELSE [err |-> "none",
          fs |-> [k \in (DOMAIN fs) \cup {path} |->
                     IF k = path THEN Entry("file", content, t) ELSE fs[k]]]

\* Save once the note is stamped and its content built.
SaveContent(fs, stamped, content, t) ==
    [err |-> WriteFile(fs, stamped.Filename, content, t).err,
     note |-> [stamped EXCEPT !.Raw = content],
     fs |-> WriteFile(fs, stamped.Filename, content, t).fs]

\* Save once the note is stamped.
SaveStamped(fs, stamped, t) ==
    SaveContent(fs, stamped, BuildFrontmatter(stamped) \o stamped.Body, t)

\* A Save that stamps created as well as updated.
SaveStampsCreated(fs, note, t) ==
    SaveStamped(fs, [note EXCEPT !.Updated = t, !.Created = t], t)

\* Store.Save at instant t (time.Now() of its first line): the note as the
\* caller holds it afterwards, and the directory.
Save(fs, note, t) == SaveStamped(fs, [note EXCEPT !.Updated = t], t)

LowerLetters == <<"a", "b", "c", "d", "e", "f", "g", "h", "i", "j", "k", "l", "m",
                  "n", "o", "p", "q", "r", "s", "t", "u", "v", "w", "x", "y", "z">>
UpperLetters == <<"A", "B", "C", "D", "E", "F", "G", "H", "I", "J", "K", "L", "M",
                  "N", "O", "P", "Q", "R", "S", "T", "U", "V", "W", "X", "Y", "Z">>

\* strings.ToLower of one character.
ToLowerChar(c) ==
    IF \E k \in 1..26 : UpperLetters[k] = c
    THEN LowerLetters[CHOOSE k \in 1..26 : UpperLetters[k] = c]
    ELSE c

IsLowerAlnum(c) ==
    \/ \E k \in 1..26 : LowerLetters[k] = c
    \/ \E k \in 1..10 : DigitChars[k] = c

\* The loop of slugify over the characters.
RECURSIVE SlugChars(_)
SlugChars(s) ==
    IF s = <<>> THEN <<>>
    ELSE LET c == ToLowerChar(Head(s))
         IN  (IF IsLowerAlnum(c) THEN <<c>>
              ELSE IF c \in {" ", "-", "_"} THEN <<"-">>
              ELSE <<>>) \o SlugChars(Tail(s))

\* for strings.Contains(result, "--") { result = strings.ReplaceAll(...) }
RECURSIVE CollapseDashes(_)
CollapseDashes(s) ==
    IF Contains(s, <<"-", "-">>)
    THEN CollapseDashes(ReplaceAll(s, <<"-", "-">>, <<"-">>))
    ELSE s

\* The fallback of slugify for an empty result.
SlugOr(result, t) ==
    IF result = <<>> THEN <<"n", "o", "t", "e", "-">> \o Itoa(Unix(t)) ELSE result

\* slugify at instant t (its time.Now() for the fallback name).
slugify(title, t) == SlugOr(CollapseDashes(Trim(SlugChars(title), {"-"})), t)

\* The id after base in the collision loop of Create.
Suffixed(base, i) == base \o <<"-">> \o Itoa(i)

\* A Create that takes the slug as it is, taken or not.
ProbeNever(fs, base, id, i) == id

\* The collision loop of Create: id is the candidate, i the next suffix.
RECURSIVE Probe(_, _, _, _)
Probe(fs, base, id, i) ==
    IF ~StatOK(fs, PathOf(id)) THEN id
    ELSE Probe(fs, base, Suffixed(base, i), i + 1)

\* Create once Save has returned s.
CreateResult(s) ==
    IF s.err # "none" THEN [err |-> s.err, note |-> NoNote, fs |-> s.fs]
    ELSE [err |-> "none", note |-> s.note, fs |-> s.fs]

\* Create once the collision loop has settled on id.
CreateAs(fs, title, tags, t0, t1, id) ==
    CreateResult(Save(fs, Note(id, title, tags, t0, t0, <<>>, <<>>, PathOf(id)), t1))

\* Create once the title is slugified.
CreateFrom(fs, title, tags, t0, t1, base) ==
    CreateAs(fs, title, tags, t0, t1, Probe(fs, base, base, 2))

\* Store.Create: t0 is the instant on entry (slugify's and the note's
\* time.Now()), t1 >= t0 the instant of the time.Now() in Save.
Create(fs, title, tags, t0, t1) == CreateFrom(fs, title, tags, t0, t1, slugify(title, t0))

DailyPrefix == <<"d", "a", "i", "l", "y", "-">>
DailyTitlePrefix == <<"D", "a", "i", "l", "y", " ">>
DailyTag == <<"d", "a", "i", "l", "y">>

\* The id of the daily note of the day of instant t.
DailyId(t) == DailyPrefix \o FormatDate(t)

\* A CreateDaily that does not look for today's note first.
CreateDailyAlways(fs, t0, t1) ==
    Create(fs, DailyTitlePrefix \o FormatDate(t0), <<DailyTag>>, t0, t1)

\* return s.loadFile(path)
DailyLoaded(fs, l) == [err |-> l.err, note |-> l.note, fs |-> fs]

\* Store.CreateDaily
CreateDaily(fs, t0, t1) ==
    IF StatOK(fs, PathOf(DailyId(t0)))
    THEN DailyLoaded(fs, loadFile(fs, PathOf(DailyId(t0))))
    ELSE Create(fs, DailyTitlePrefix \o FormatDate(t0), <<DailyTag>>, t0, t1)

\* A Delete that reports success and removes nothing.
DeleteKeeps(fs, id) ==
    IF ~StatOK(fs, PathOf(id)) THEN [err |-> "notexist", fs |-> fs]
    ELSE [err |-> "none", fs |-> fs]

\* Store.Delete: os.Remove
Delete(fs, id) ==
    IF ~StatOK(fs, PathOf(id)) THEN [err |-> "notexist", fs |-> fs]
    ELSE [err |-> "none", fs |-> [k \in (DOMAIN fs) \ {PathOf(id)} |-> fs[k]]]

(***************************************************************************)
(* The wiki-links of a body (internal/notes, ExtractLinks and Backlinks).  *)
(***************************************************************************)
OpenLink == <<"[", "[">>
CloseLink == <<"]", "]">>

\* An EqualFold that tells the cases apart.
EqualExact(x, y) == x = y

\* strings.EqualFold
EqualFold(x, y) ==
    Len(x) = Len(y) /\ \A k \in 1..Len(x) : ToLowerChar(x[k]) = ToLowerChar(y[k])

\* A LinkTaken that takes every target.
LinkTakenAlways(acc, target) == Append(acc, target)

\* A target joins the targets found so far unless it is empty or among them.
LinkTaken(acc, target) ==
    IF target = <<>> \/ \E k \in 1..Len(acc) : acc[k] = target THEN acc ELSE Append(acc, target)

RECURSIVE LinksFrom(_, _)
\* rest follows an opening marker; its closing marker is at j.
LinkClosed(rest, acc, j) ==
    IF j = -1 THEN acc
    ELSE LinksFrom(SliceFrom(rest, j + 2), LinkTaken(acc, Slice(rest, 0, j)))

LinkRest(rest, acc) == LinkClosed(rest, acc, Index(rest, CloseLink))

\* The opening marker of body is at i.
LinkOpened(body, acc, i) == IF i = -1 THEN acc ELSE LinkRest(SliceFrom(body, i + 2), acc)

LinksFrom(body, acc) == LinkOpened(body, acc, Index(body, OpenLink))

\* ExtractLinks: the targets of body in the order of their first occurrence,
\* none twice, none empty.
ExtractLinks(body) == LinksFrom(body, <<>>)

HasLinkTo(links, title) == \E k \in 1..Len(links) : EqualFold(links[k], title)

\* Backlinks: the notes whose links hold title, compared without case.
Backlinks(title, allNotes) ==
    SelectSeq(allNotes, LAMBDA n : HasLinkTo(ExtractLinks(n.Body), title))

(***************************************************************************)
(* internal/templates                                                      *)
(***************************************************************************)
TemplateNames == <<"default", "meeting", "brainstorm", "research">>

TitleMark == <<"{", "{", "t", "i", "t", "l", "e", "}", "}">>
DateMark == <<"{", "{", "d", "a", "t", "e", "}", "}">>

\* The text the meeting, brainstorm and research templates begin with; the
\* fixed sections that follow it differ between the three and hold no marker.
TemplateHead ==
    <<"#", "#", " ">> \o TitleMark \o <<"\n", "\n", "*", "*", "D", "a", "t", "e", ":", "*", "*", " ">>
        \o DateMark \o <<"\n">>

\* bodies[name], the default body for a name that is not a template.
TemplateText(name) ==
    IF \E k \in 2..Len(TemplateNames) : TemplateNames[k] = name THEN TemplateHead ELSE <<>>

\* templates.Get
Get(name, title, date) ==
    ReplaceAll(ReplaceAll(TemplateText(name), TitleMark, title), DateMark, date)

(***************************************************************************)
(* internal/ui/app.go: the session.  A handler is a function from the      *)
(* session a, the directory fs, the instant t, the clock drift d within    *)
(* the call and the key or message to the session and directory            *)
(* afterwards, the instant afterwards, the command returned, and whether   *)
(* the call panicked.  The viewport, the rendered text and the focus of    *)
(* the text inputs are what the screen shows and are left out.             *)
(***************************************************************************)
\* The status line: empty, or a prefix and what follows it.
NoStatus == <<>>
Status(prefix, detail) == <<prefix, detail>>

\* tea.Cmd values.  Blink only animates the text cursor.  A command that asks
\* the AI service holds the question and, for the open note, the note's id
\* and file name (none when there is no open note).
Cmd(kind, id, filename) ==
    [kind |-> kind, id |-> id, filename |-> filename, question |-> <<>>]
NoCmd == Cmd("none", <<>>, <<>>)
Blink == Cmd("blink", <<>>, <<>>)
Quit == Cmd("quit", <<>>, <<>>)
cmdLoadNotes == Cmd("loadNotes", <<>>, <<>>)
cmdOpenEditor(note) == Cmd("editor", note.ID, note.Filename)
cmdAskAI(note, question) ==
    [Cmd("askAI", note.ID, note.Filename) EXCEPT !.question = question]
cmdAskVault(question) == [Cmd("askVault", <<>>, <<>>) EXCEPT !.question = question]

\* tea.Msg values.  asked is no field of the Go messages: it is the question
\* of the request a completion answers, kept to state what the completion
\* belongs to; Update never reads it.
Msg(kind, key, height, notes, id, err) ==
    [kind |-> kind, key |-> key, height |-> height, notes |-> notes, id |-> id, err |-> err,
     response |-> <<>>, asked |-> <<>>]
KeyMsg(key) == Msg("key", key, 0, <<>>, <<>>, "none")
WindowSizeMsg(h) == Msg("windowSize", "", h, <<>>, <<>>, "none")
notesLoadedMsg(notes, err) == Msg("notesLoaded", "", 0, notes, <<>>, err)
editorClosedMsg(notes, openID, err) == Msg("editorClosed", "", 0, notes, openID, err)
aiResponseMsg(response, err, asked) ==
    [Msg("aiResponse", "", 0, <<>>, <<>>, err) EXCEPT !.response = response, !.asked = asked]
vaultAIResponseMsg(response, err, asked) ==
    [Msg("vaultAIResponse", "", 0, <<>>, <<>>, err) EXCEPT !.response = response, !.asked = asked]

\* aiEntry
aiEntry(question, answer) == [question |-> question, answer |-> answer]

\* New(): the session before its first message.  available is what
\* a.ai.Available() answers.
\* focused is the set of the text inputs that have the focus (Focus, Blur).
NewApp(available) ==
    [state |-> "List", height |-> 0, available |-> available,
     allNotes |-> <<>>, filtered |-> <<>>, cursor |-> 0, listOffset |-> 0,
     current |-> NoNote,
     searchInput |-> <<>>, newNoteInput |-> <<>>, aiInput |-> <<>>, vaultAIInput |-> <<>>,
     templateTitleIn |-> <<>>, focused |-> {},
     searchQuery |-> <<>>,
     aiHistory |-> <<>>, aiLoading |-> FALSE, aiError |-> "",
     vaultAIHistory |-> <<>>, vaultAILoading |-> FALSE, vaultAIError |-> "",
     deleteTarget |-> NoNote, lastKey |-> "", prevState |-> "List",
     statusMsg |-> NoStatus, statusIsError |-> FALSE,
     templateCursor |-> 0, selectedTemplate |-> "",
     linksCursor |-> 0, linksOut |-> <<>>, linksBack |-> <<>>]

Out(a, fs, t, cmd, panic) == [a |-> a, fs |-> fs, t |-> t, cmd |-> cmd, panic |-> panic]

setStatus(a, msg, isErr) == [a EXCEPT !.statusMsg = msg, !.statusIsError = isErr]

HeaderRows == 6

ensureVisible(a) ==
    LET listH == IF a.height - HeaderRows < 1 THEN 1 ELSE a.height - HeaderRows
        up == IF a.cursor < a.listOffset THEN a.cursor ELSE a.listOffset
        down == IF a.cursor >= up + listH THEN a.cursor - listH + 1 ELSE up
    IN  [a EXCEPT !.listOffset = down]

\* An Opened that closes the open note when Load fails.
OpenedOrClosed(a, fs, t, l) ==
    IF l.err = "panic" THEN Out(a, fs, t, NoCmd, TRUE)
    ELSE IF l.err # "none"
    THEN Out([setStatus(a, Status("error: ", l.err), TRUE) EXCEPT !.current = NoNote],
             fs, t, NoCmd, FALSE)
    ELSE Out([a EXCEPT !.current = l.note, !.aiHistory = <<>>, !.state = "Viewer"],
             fs, t, NoCmd, FALSE)

\* openNote once Load has returned l.
Opened(a, fs, t, l) ==
    IF l.err = "panic" THEN Out(a, fs, t, NoCmd, TRUE)
    ELSE IF l.err # "none"
    THEN Out(setStatus(a, Status("error: ", l.err), TRUE), fs, t, NoCmd, FALSE)
    ELSE Out([a EXCEPT !.current = l.note, !.aiHistory = <<>>, !.state = "Viewer"],
             fs, t, NoCmd, FALSE)

\* An openNote that shows the note of the snapshot.
openNoteOfSnapshot(a, fs, t, note) ==
    Out([a EXCEPT !.current = note, !.aiHistory = <<>>, !.state = "Viewer"], fs, t, NoCmd, FALSE)

openNote(a, fs, t, note) == Opened(a, fs, t, Load(fs, note.ID))

\* The key t of the list once CreateDaily has returned r at instant t1.
DailyOpened(a, t1, r) ==
    IF r.err = "panic" THEN Out(a, r.fs, t1, NoCmd, TRUE)
    ELSE IF r.err # "none"
    THEN Out(setStatus(a, Status("error: ", r.err), TRUE), r.fs, t1, NoCmd, FALSE)
    ELSE Out(a, r.fs, t1, cmdOpenEditor(r.note), FALSE)

NoKeyStatus == Status("no Gemini API key", "")

updateList(a0, fs, t, d, key) ==
    LET prev == a0.lastKey
        a == [a0 EXCEPT !.lastKey = key]
        same == Out(a, fs, t, NoCmd, FALSE)
    IN  CASE key \in {"q", "ctrl+c"} -> Out(a, fs, t, Quit, FALSE)
          [] key \in {"j", "down"} ->
                IF a.cursor < Len(a.filtered) - 1
                THEN Out(ensureVisible([a EXCEPT !.cursor = a.cursor + 1]), fs, t, NoCmd, FALSE)
                ELSE same
          [] key \in {"k", "up"} ->
                IF a.cursor > 0
                THEN Out(ensureVisible([a EXCEPT !.cursor = a.cursor - 1]), fs, t, NoCmd, FALSE)
                ELSE same
          [] key = "g" ->
                IF prev = "g"
                THEN Out([a EXCEPT !.cursor = 0, !.listOffset = 0, !.lastKey = ""], fs, t, NoCmd, FALSE)
                ELSE same
          [] key = "G" ->
                IF Len(a.filtered) > 0
                THEN Out(ensureVisible([a EXCEPT !.cursor = Len(a.filtered) - 1]), fs, t, NoCmd, FALSE)
                ELSE same
          [] key \in {"enter", "l"} ->
                IF Len(a.filtered) = 0 THEN same
                ELSE IF a.cursor >= Len(a.filtered) THEN Out(a, fs, t, NoCmd, TRUE)
                ELSE openNote(a, fs, t, a.filtered[a.cursor + 1])
          [] key = "n" ->
                Out([a EXCEPT !.state = "NewNote", !.newNoteInput = <<>>,
                              !.focused = a.focused \cup {"newNote"}], fs, t, Blink, FALSE)
          [] key = "N" ->
                Out([a EXCEPT !.state = "TemplatePicker", !.templateCursor = 0], fs, t, NoCmd, FALSE)
          [] key = "t" ->
                DailyOpened(a, IF StatOK(fs, PathOf(DailyId(t))) THEN t ELSE t + d,
                            CreateDaily(fs, t, t + d))
          [] key = "/" ->
                Out([a EXCEPT !.state = "Search", !.searchInput = <<>>, !.searchQuery = <<>>,
                              !.focused = a.focused \cup {"search"},
                              !.filtered = a.allNotes, !.cursor = 0, !.lastKey = ""],
                    fs, t, Blink, FALSE)
          [] key = "d" ->
                IF Len(a.filtered) = 0 THEN same
                ELSE IF a.cursor >= Len(a.filtered) THEN Out(a, fs, t, NoCmd, TRUE)
                ELSE Out([a EXCEPT !.deleteTarget = a.filtered[a.cursor + 1],
                                   !.state = "ConfirmDelete"], fs, t, NoCmd, FALSE)
          [] key = "r" -> Out(a, fs, t, cmdLoadNotes, FALSE)
          [] key = "@" ->
                IF ~a.available THEN Out(setStatus(a, NoKeyStatus, TRUE), fs, t, NoCmd, FALSE)
                ELSE Out([a EXCEPT !.state = "VaultAI", !.vaultAIInput = <<>>,
                                   !.focused = a.focused \cup {"vaultAI"},
                                   !.vaultAIError = "", !.vaultAILoading = FALSE],
                         fs, t, Blink, FALSE)
          [] key = "?" -> Out([a EXCEPT !.prevState = "List", !.state = "Help"], fs, t, NoCmd, FALSE)
          [] OTHER -> same

\* openLinksPanel, called with a note open.
openLinksPanel(a) ==
    [a EXCEPT !.linksOut = ExtractLinks(a.current.Body),
              !.linksBack = Backlinks(a.current.Title, a.allNotes),
              !.linksCursor = 0, !.state = "Links"]

\* The keys of the viewer that only scroll the viewport.
ScrollKeys ==
    {"G", "j", "down", "k", "up", "d", "ctrl+d", "u", "ctrl+u", "ctrl+f", "pgdown",
     "ctrl+b", "pgup", "}", "{"}

\* An updateViewer whose every g jumps to the top.
updateViewerJumpsOnG(a0, fs, t, d, key) ==
    LET a == [a0 EXCEPT !.lastKey = key]
        same == Out(a, fs, t, NoCmd, FALSE)
    IN  CASE key \in {"q", "h", "esc"} -> Out([a EXCEPT !.state = "List"], fs, t, NoCmd, FALSE)
          [] key = "e" ->
                IF a.current # NoNote THEN Out(a, fs, t, cmdOpenEditor(a.current), FALSE) ELSE same
          [] key \in {"A", "a"} ->
                IF ~a.available THEN Out(setStatus(a, NoKeyStatus, TRUE), fs, t, NoCmd, FALSE)
                ELSE Out([a EXCEPT !.state = "AIPanel", !.aiInput = <<>>,
                                   !.focused = a.focused \cup {"ai"},
                                   !.aiError = "", !.aiLoading = FALSE], fs, t, Blink, FALSE)
          [] key = "g" -> Out([a EXCEPT !.lastKey = ""], fs, t, NoCmd, FALSE)
          [] key \in ScrollKeys -> same
          [] key = "?" -> Out([a EXCEPT !.prevState = "Viewer", !.state = "Help"], fs, t, NoCmd, FALSE)
          [] key = "L" -> IF a.current # NoNote THEN Out(openLinksPanel(a), fs, t, NoCmd, FALSE) ELSE same
          [] OTHER -> same

updateViewer(a0, fs, t, d, key) ==
    LET prev == a0.lastKey
        a == [a0 EXCEPT !.lastKey = key]
        same == Out(a, fs, t, NoCmd, FALSE)
    IN  CASE key \in {"q", "h", "esc"} -> Out([a EXCEPT !.state = "List"], fs, t, NoCmd, FALSE)
          [] key = "e" ->
                IF a.current # NoNote THEN Out(a, fs, t, cmdOpenEditor(a.current), FALSE) ELSE same
          [] key \in {"A", "a"} ->
                IF ~a.available THEN Out(setStatus(a, NoKeyStatus, TRUE), fs, t, NoCmd, FALSE)
                ELSE Out([a EXCEPT !.state = "AIPanel", !.aiInput = <<>>,
                                   !.focused = a.focused \cup {"ai"},
                                   !.aiError = "", !.aiLoading = FALSE], fs, t, Blink, FALSE)
          [] key = "g" -> IF prev = "g" THEN Out([a EXCEPT !.lastKey = ""], fs, t, NoCmd, FALSE) ELSE same
          [] key \in ScrollKeys -> same
          [] key = "?" -> Out([a EXCEPT !.prevState = "Viewer", !.state = "Help"], fs, t, NoCmd, FALSE)
          [] key = "L" -> IF a.current # NoNote THEN Out(openLinksPanel(a), fs, t, NoCmd, FALSE) ELSE same
          [] OTHER -> same

\* a.filtered[a.cursor] with the cursor past the end is a run-time panic.
\* An updateConfirmDelete whose cancel keeps the target.
updateConfirmDeleteKeepsTarget(a, fs, t, d, key) ==
    CASE key \in {"y", "Y", "enter"} ->
            LET r == Delete(fs, a.deleteTarget.ID)
                b == IF a.deleteTarget = NoNote THEN a
                     ELSE [(IF r.err # "none"
                            THEN setStatus(a, Status("delete failed: ", r.err), TRUE)
                            ELSE setStatus(a, Status("deleted ", a.deleteTarget.Title), FALSE))
                           EXCEPT !.deleteTarget = NoNote]
            IN  Out([b EXCEPT !.state = "List"],
                    IF a.deleteTarget = NoNote THEN fs ELSE r.fs, t, cmdLoadNotes, FALSE)
      [] key \in {"n", "N", "esc", "q"} -> Out([a EXCEPT !.state = "List"], fs, t, NoCmd, FALSE)
      [] OTHER -> Out(a, fs, t, NoCmd, FALSE)

\* An updateConfirmDelete that deletes and does not reload.
updateConfirmDeleteNoReload(a, fs, t, d, key) ==
    CASE key \in {"y", "Y", "enter"} ->
            LET r == Delete(fs, a.deleteTarget.ID)
                b == IF a.deleteTarget = NoNote THEN a
                     ELSE [(IF r.err # "none"
                            THEN setStatus(a, Status("delete failed: ", r.err), TRUE)
                            ELSE setStatus(a, Status("deleted ", a.deleteTarget.Title), FALSE))
                           EXCEPT !.deleteTarget = NoNote]
            IN  Out([b EXCEPT !.state = "List"],
                    IF a.deleteTarget = NoNote THEN fs ELSE r.fs, t, NoCmd, FALSE)
      [] key \in {"n", "N", "esc", "q"} ->
            Out([a EXCEPT !.deleteTarget = NoNote, !.state = "List"], fs, t, NoCmd, FALSE)
      [] OTHER -> Out(a, fs, t, NoCmd, FALSE)

\* An updateConfirmDelete that deletes the note under the cursor.
updateConfirmDeleteAtCursor(a, fs, t, d, key) ==
    CASE key \in {"y", "Y", "enter"} ->
            LET under == IF a.cursor < Len(a.filtered) THEN a.filtered[a.cursor + 1]
                         ELSE a.deleteTarget
                r == Delete(fs, under.ID)
                b == IF a.deleteTarget = NoNote THEN a
                     ELSE [(IF r.err # "none"
                            THEN setStatus(a, Status("delete failed: ", r.err), TRUE)
                            ELSE setStatus(a, Status("deleted ", under.Title), FALSE))
                           EXCEPT !.deleteTarget = NoNote]
            IN  Out([b EXCEPT !.state = "List"],
                    IF a.deleteTarget = NoNote THEN fs ELSE r.fs, t, cmdLoadNotes, FALSE)
      [] key \in {"n", "N", "esc", "q"} ->
            Out([a EXCEPT !.deleteTarget = NoNote, !.state = "List"], fs, t, NoCmd, FALSE)
      [] OTHER -> Out(a, fs, t, NoCmd, FALSE)

updateConfirmDelete(a, fs, t, d, key) ==
    CASE key \in {"y", "Y", "enter"} ->
            LET r == Delete(fs, a.deleteTarget.ID)
                b == IF a.deleteTarget = NoNote THEN a
                     ELSE [(IF r.err # "none"
                            THEN setStatus(a, Status("delete failed: ", r.err), TRUE)
                            ELSE setStatus(a, Status("deleted ", a.deleteTarget.Title), FALSE))
                           EXCEPT !.deleteTarget = NoNote]
            IN  Out([b EXCEPT !.state = "List"],
                    IF a.deleteTarget = NoNote THEN fs ELSE r.fs, t, cmdLoadNotes, FALSE)
      [] key \in {"n", "N", "esc", "q"} ->
            Out([a EXCEPT !.deleteTarget = NoNote, !.state = "List"], fs, t, NoCmd, FALSE)
      [] OTHER -> Out(a, fs, t, NoCmd, FALSE)

updateHelp(a, fs, t, d, key) ==
    IF key \in {"q", "esc", "?"} THEN Out([a EXCEPT !.state = a.prevState], fs, t, NoCmd, FALSE)
    ELSE Out(a, fs, t, NoCmd, FALSE)

(***************************************************************************)
(* The text inputs (bubbles/textinput) and the fuzzy search.               *)
(***************************************************************************)
\* The keys that are one printable character.
RuneKeys ==
    {LowerLetters[k] : k \in 1..Len(LowerLetters)} \cup {UpperLetters[k] : k \in 1..Len(UpperLetters)}
        \cup {DigitChars[k] : k \in 1..Len(DigitChars)}
        \cup {" ", "/", "?", "@", "-", "_", "[", "]", "{", "}", ":", ",", "."}

\* textinput.Model.Update on a key: an input that has the focus takes a
\* printable character at its end unless it is full, and backspace removes
\* its last character.  The keys that move the cursor inside the input are
\* not pressed.
typeInto(value, key, limit, focus) ==
    IF ~focus THEN value
    ELSE IF key \in RuneKeys THEN (IF Len(value) < limit THEN Append(value, key) ELSE value)
    ELSE IF key = "backspace" /\ value # <<>> THEN SubSeq(value, 1, Len(value) - 1)
    ELSE value

SearchCharLimit == 200
TitleCharLimit == 200
AICharLimit == 500

\* fuzzy.Find matches a target that holds the characters of the pattern in
\* their order, compared without case: the characters of p from place i on
\* are found in s from place j on.
RECURSIVE FuzzyFrom(_, _, _, _)
FuzzyFrom(p, s, i, j) ==
    IF i > Len(p) THEN TRUE
    ELSE IF j > Len(s) THEN FALSE
    ELSE IF ToLowerChar(p[i]) = ToLowerChar(s[j]) THEN FuzzyFrom(p, s, i + 1, j + 1)
    ELSE FuzzyFrom(p, s, i, j + 1)

FuzzyMatch(pattern, target) == FuzzyFrom(pattern, target, 1, 1)

\* The text of a note that is searched.
SearchTarget(n) == n.Title \o <<" ">> \o Join(n.Tags, <<" ">>) \o <<" ">> \o n.Body

\* runSearch: the filtered list for a query.  fuzzy.Find ranks the matches
\* by a score; here they keep the order of the snapshot.
runSearch(allNotes, query) ==
    IF query = <<>> THEN allNotes
    ELSE SelectSeq(allNotes, LAMBDA n : FuzzyMatch(query, SearchTarget(n)))

\* A Searched that keeps the cursor where it is.
SearchedKeepsCursor(a, fs, t, q) ==
    IF q # a.searchQuery
    THEN Out([a EXCEPT !.searchInput = q, !.searchQuery = q,
                       !.filtered = runSearch(a.allNotes, q)], fs, t, NoCmd, FALSE)
    ELSE Out([a EXCEPT !.searchInput = q], fs, t, NoCmd, FALSE)

\* updateSearch once the input has taken the key and holds q.
Searched(a, fs, t, q) ==
    IF q # a.searchQuery
    THEN Out([a EXCEPT !.searchInput = q, !.searchQuery = q, !.cursor = 0,
                       !.filtered = runSearch(a.allNotes, q)], fs, t, NoCmd, FALSE)
    ELSE Out([a EXCEPT !.searchInput = q], fs, t, NoCmd, FALSE)

updateSearch(a, fs, t, d, key) ==
    CASE key = "esc" ->
            Out([a EXCEPT !.state = "List", !.filtered = a.allNotes, !.cursor = 0,
                          !.focused = a.focused \ {"search"}], fs, t, NoCmd, FALSE)
      [] key = "enter" ->
            IF Len(a.filtered) = 0 THEN Out(a, fs, t, NoCmd, FALSE)
            ELSE IF a.cursor >= Len(a.filtered) THEN Out(a, fs, t, NoCmd, TRUE)
            ELSE openNote(a, fs, t, a.filtered[a.cursor + 1])
      [] key \in {"ctrl+n", "down"} ->
            IF a.cursor < Len(a.filtered) - 1
            THEN Out([a EXCEPT !.cursor = a.cursor + 1], fs, t, NoCmd, FALSE)
            ELSE Out(a, fs, t, NoCmd, FALSE)
      [] key \in {"ctrl+p", "up"} ->
            IF a.cursor > 0
            THEN Out([a EXCEPT !.cursor = a.cursor - 1], fs, t, NoCmd, FALSE)
            ELSE Out(a, fs, t, NoCmd, FALSE)
      [] OTHER ->
            Searched(a, fs, t, typeInto(a.searchInput, key, SearchCharLimit, "search" \in a.focused))

\* updateNewNote once Create has returned r at instant t1.
NewNoteCreated(a, t1, r) ==
    IF r.err # "none"
    THEN Out([setStatus(a, Status("error: ", r.err), TRUE) EXCEPT !.state = "List"],
             r.fs, t1, NoCmd, FALSE)
    ELSE Out(a, r.fs, t1, cmdOpenEditor(r.note), FALSE)

\* The key enter of updateNewNote once the title is trimmed.
NewNoteTitled(a, fs, t, d, title) ==
    IF title = <<>> THEN Out([a EXCEPT !.state = "List"], fs, t, NoCmd, FALSE)
    ELSE NewNoteCreated(a, t + d, Create(fs, title, <<>>, t, t + d))

updateNewNote(a, fs, t, d, key) ==
    CASE key = "esc" ->
            Out([a EXCEPT !.state = "List", !.focused = a.focused \ {"newNote"}],
                fs, t, NoCmd, FALSE)
      [] key = "enter" ->
            NewNoteTitled([a EXCEPT !.focused = a.focused \ {"newNote"}], fs, t, d,
                          TrimSpace(a.newNoteInput))
      [] OTHER ->
            Out([a EXCEPT !.newNoteInput =
                            typeInto(a.newNoteInput, key, TitleCharLimit, "newNote" \in a.focused)],
                fs, t, NoCmd, FALSE)

updateTemplatePicker(a, fs, t, d, key) ==
    CASE key \in {"esc", "q"} -> Out([a EXCEPT !.state = "List"], fs, t, NoCmd, FALSE)
      [] key \in {"j", "down"} ->
            IF a.templateCursor < Len(TemplateNames) - 1
            THEN Out([a EXCEPT !.templateCursor = a.templateCursor + 1], fs, t, NoCmd, FALSE)
            ELSE Out(a, fs, t, NoCmd, FALSE)
      [] key \in {"k", "up"} ->
            IF a.templateCursor > 0
            THEN Out([a EXCEPT !.templateCursor = a.templateCursor - 1], fs, t, NoCmd, FALSE)
            ELSE Out(a, fs, t, NoCmd, FALSE)
      [] key \in {"enter", "l"} ->
            Out([a EXCEPT !.selectedTemplate = TemplateNames[a.templateCursor + 1],
                          !.state = "TemplateTitle", !.templateTitleIn = <<>>,
                          !.focused = a.focused \cup {"templateTitle"}], fs, t, Blink, FALSE)
      [] OTHER -> Out(a, fs, t, NoCmd, FALSE)

\* updateTemplateTitle once Save has returned s at instant t1.
TemplateSaved(a, t1, s) ==
    IF s.err # "none"
    THEN Out([setStatus(a, Status("save error: ", s.err), TRUE) EXCEPT !.state = "List"],
             s.fs, t1, NoCmd, FALSE)
    ELSE Out(a, s.fs, t1, cmdOpenEditor(s.note), FALSE)

\* updateTemplateTitle once Create has returned r: the date and the Save
\* read the clock at t1.
TemplateCreated(a, t1, title, r) ==
    IF r.err # "none"
    THEN Out([setStatus(a, Status("error: ", r.err), TRUE) EXCEPT !.state = "List"],
             r.fs, t1, NoCmd, FALSE)
    ELSE TemplateSaved(a, t1,
            Save(r.fs, [r.note EXCEPT !.Body = Get(a.selectedTemplate, title, FormatDate(t1))], t1))

\* The key enter of updateTemplateTitle once the title is trimmed.
TemplateTitled(a, fs, t, d, title) ==
    IF title = <<>> THEN Out([a EXCEPT !.state = "List"], fs, t, NoCmd, FALSE)
    ELSE TemplateCreated(a, t + d, title, Create(fs, title, <<>>, t, t + d))

updateTemplateTitle(a, fs, t, d, key) ==
    CASE key = "esc" ->
            Out([a EXCEPT !.state = "TemplatePicker", !.focused = a.focused \ {"templateTitle"}],
                fs, t, NoCmd, FALSE)
      [] key = "enter" ->
            TemplateTitled([a EXCEPT !.focused = a.focused \ {"templateTitle"}], fs, t, d,
                           TrimSpace(a.templateTitleIn))
      [] OTHER ->
            Out([a EXCEPT !.templateTitleIn =
                            typeInto(a.templateTitleIn, key, TitleCharLimit,
                                     "templateTitle" \in a.focused)],
                fs, t, NoCmd, FALSE)

\* An AIAsked that sets the loading flag and issues no command.
AIAskedNoCmd(a, fs, t, q) ==
    IF q = <<>> \/ a.aiLoading THEN Out(a, fs, t, NoCmd, FALSE)
    ELSE Out([a EXCEPT !.aiLoading = TRUE, !.aiError = "",
                       !.aiHistory = Append(a.aiHistory, aiEntry(q, <<>>)),
                       !.aiInput = <<>>], fs, t, NoCmd, FALSE)

\* The key enter of updateAIPanel once the question is trimmed.
AIAsked(a, fs, t, q) ==
    IF q = <<>> \/ a.aiLoading THEN Out(a, fs, t, NoCmd, FALSE)
    ELSE Out([a EXCEPT !.aiLoading = TRUE, !.aiError = "",
                       !.aiHistory = Append(a.aiHistory, aiEntry(q, <<>>)),
                       !.aiInput = <<>>], fs, t, cmdAskAI(a.current, q), FALSE)

\* updateAIPanel, were escape to leave the panel while it is loading.
updateAIPanelEscAlways(a, fs, t, d, key) ==
    CASE key = "esc" ->
            Out([a EXCEPT !.state = "Viewer", !.focused = a.focused \ {"ai"}],
                fs, t, NoCmd, FALSE)
      [] key = "enter" -> AIAsked(a, fs, t, TrimSpace(a.aiInput))
      [] OTHER ->
            IF ~a.aiLoading
            THEN Out([a EXCEPT !.aiInput = typeInto(a.aiInput, key, AICharLimit, "ai" \in a.focused)],
                     fs, t, NoCmd, FALSE)
            ELSE Out(a, fs, t, NoCmd, FALSE)

updateAIPanel(a, fs, t, d, key) ==
    CASE key = "esc" ->
            IF ~a.aiLoading
            THEN Out([a EXCEPT !.state = "Viewer", !.focused = a.focused \ {"ai"}],
                     fs, t, NoCmd, FALSE)
            ELSE Out(a, fs, t, NoCmd, FALSE)
      [] key = "enter" -> AIAsked(a, fs, t, TrimSpace(a.aiInput))
      [] OTHER ->
            IF ~a.aiLoading
            THEN Out([a EXCEPT !.aiInput = typeInto(a.aiInput, key, AICharLimit, "ai" \in a.focused)],
                     fs, t, NoCmd, FALSE)
            ELSE Out(a, fs, t, NoCmd, FALSE)

\* The key enter of updateVaultAI once the question is trimmed.
VaultAsked(a, fs, t, q) ==
    IF q = <<>> \/ a.vaultAILoading THEN Out(a, fs, t, NoCmd, FALSE)
    ELSE Out([a EXCEPT !.vaultAILoading = TRUE, !.vaultAIError = "",
                       !.vaultAIHistory = Append(a.vaultAIHistory, aiEntry(q, <<>>)),
                       !.vaultAIInput = <<>>], fs, t, cmdAskVault(q), FALSE)

\* updateVaultAI, were the input to take the keys while the panel is loading.
updateVaultAITypesWhileLoading(a, fs, t, d, key) ==
    CASE key = "esc" ->
            IF ~a.vaultAILoading
            THEN Out([a EXCEPT !.state = "List", !.focused = a.focused \ {"vaultAI"}],
                     fs, t, NoCmd, FALSE)
            ELSE Out(a, fs, t, NoCmd, FALSE)
      [] key = "enter" -> VaultAsked(a, fs, t, TrimSpace(a.vaultAIInput))
      [] OTHER ->
            Out([a EXCEPT !.vaultAIInput =
                            typeInto(a.vaultAIInput, key, AICharLimit, "vaultAI" \in a.focused)],
                fs, t, NoCmd, FALSE)

updateVaultAI(a, fs, t, d, key) ==
    CASE key = "esc" ->
            IF ~a.vaultAILoading
            THEN Out([a EXCEPT !.state = "List", !.focused = a.focused \ {"vaultAI"}],
                     fs, t, NoCmd, FALSE)
            ELSE Out(a, fs, t, NoCmd, FALSE)
      [] key = "enter" -> VaultAsked(a, fs, t, TrimSpace(a.vaultAIInput))
      [] OTHER ->
            IF ~a.vaultAILoading
            THEN Out([a EXCEPT !.vaultAIInput =
                                 typeInto(a.vaultAIInput, key, AICharLimit, "vaultAI" \in a.focused)],
                     fs, t, NoCmd, FALSE)
            ELSE Out(a, fs, t, NoCmd, FALSE)

\* The notes of allNotes whose title is targetTitle, compared without case.
TitledAs(allNotes, targetTitle) ==
    {i \in 1..Len(allNotes) : EqualFold(allNotes[i].Title, targetTitle)}

\* The key enter of updateLinks on an outgoing link: at is where the notes of
\* that title are.
LinkFollowed(a, fs, t, targetTitle, at) ==
    IF targetTitle = <<>> THEN Out(a, fs, t, NoCmd, FALSE)
    ELSE IF at # {} THEN openNote(a, fs, t, a.allNotes[Min(at)])
    ELSE Out([setStatus(a, Status("note not found: ", targetTitle), TRUE) EXCEPT !.state = "Viewer"],
             fs, t, NoCmd, FALSE)

updateLinks(a, fs, t, d, key) ==
    CASE key \in {"esc", "q", "h"} -> Out([a EXCEPT !.state = "Viewer"], fs, t, NoCmd, FALSE)
      [] key \in {"j", "down"} ->
            IF a.linksCursor < Len(a.linksOut) + Len(a.linksBack) - 1
            THEN Out([a EXCEPT !.linksCursor = a.linksCursor + 1], fs, t, NoCmd, FALSE)
            ELSE Out(a, fs, t, NoCmd, FALSE)
      [] key \in {"k", "up"} ->
            IF a.linksCursor > 0
            THEN Out([a EXCEPT !.linksCursor = a.linksCursor - 1], fs, t, NoCmd, FALSE)
            ELSE Out(a, fs, t, NoCmd, FALSE)
      [] key \in {"enter", "l"} ->
            IF a.linksCursor < Len(a.linksOut)
            THEN LinkFollowed(a, fs, t, a.linksOut[a.linksCursor + 1],
                              TitledAs(a.allNotes, a.linksOut[a.linksCursor + 1]))
            ELSE IF a.linksCursor - Len(a.linksOut) < Len(a.linksBack)
            THEN openNote(a, fs, t, a.linksBack[a.linksCursor - Len(a.linksOut) + 1])
            ELSE Out(a, fs, t, NoCmd, FALSE)
      [] OTHER -> Out(a, fs, t, NoCmd, FALSE)

\* The completion of a question: the loading flag, the error or the answer
\* of the last entry of the history.
Answered(history, msg) ==
    IF msg.err = "none" /\ Len(history) > 0
    THEN [history EXCEPT ![Len(history)].answer = msg.response]
    ELSE history

\* The places of the notes of id openID in notes.
PlacesOf(notes, openID) == {i \in 1..Len(notes) : notes[i].ID = openID}

\* A notesLoadedMsg arm that replaces the snapshot and keeps the list.
NotesLoadedKeepsFiltered(a, fs, t, msg) ==
    IF msg.err # "none"
    THEN Out(setStatus(a, Status("error loading notes: ", msg.err), TRUE), fs, t, NoCmd, FALSE)
    ELSE LET b == [a EXCEPT !.allNotes = msg.notes]
         IN  Out(IF b.cursor >= Len(b.filtered)
                 THEN [b EXCEPT !.cursor = IF Len(b.filtered) - 1 > 0
                                           THEN Len(b.filtered) - 1 ELSE 0]
                 ELSE b, fs, t, NoCmd, FALSE)

\* The notesLoadedMsg arm of App.Update.
NotesLoaded(a, fs, t, msg) ==
    IF msg.err # "none"
    THEN Out(setStatus(a, Status("error loading notes: ", msg.err), TRUE), fs, t, NoCmd, FALSE)
    ELSE LET b == [a EXCEPT !.allNotes = msg.notes, !.filtered = msg.notes]
         IN  Out(IF b.cursor >= Len(b.filtered)
                 THEN [b EXCEPT !.cursor = IF Len(b.filtered) - 1 > 0
                                           THEN Len(b.filtered) - 1 ELSE 0]
                 ELSE b, fs, t, NoCmd, FALSE)

\* App.Update
Update(a, fs, t, d, msg) ==
    CASE msg.kind = "windowSize" -> Out([a EXCEPT !.height = msg.height], fs, t, NoCmd, FALSE)
      [] msg.kind = "notesLoaded" -> NotesLoaded(a, fs, t, msg)
      [] msg.kind = "editorClosed" ->
            LET a1 == IF msg.err # "none" THEN setStatus(a, Status("editor: ", msg.err), TRUE) ELSE a
                a2 == IF msg.notes # <<>>
                      THEN [a1 EXCEPT !.allNotes = msg.notes, !.filtered = msg.notes] ELSE a1
                at == PlacesOf(msg.notes, msg.id)
            IN  IF msg.id # <<>> /\ at # {}
                THEN Out([a2 EXCEPT !.current = msg.notes[Min(at)], !.state = "Viewer"],
                         fs, t, NoCmd, FALSE)
                ELSE Out([a2 EXCEPT !.lastKey = "", !.state = "List"], fs, t, NoCmd, FALSE)
      [] msg.kind = "aiResponse" ->
            Out([a EXCEPT !.aiLoading = FALSE,
                          !.aiError = IF msg.err # "none" THEN msg.err ELSE a.aiError,
                          !.aiHistory = Answered(a.aiHistory, msg)], fs, t, NoCmd, FALSE)
      [] msg.kind = "vaultAIResponse" ->
            Out([a EXCEPT !.vaultAILoading = FALSE,
                          !.vaultAIError = IF msg.err # "none" THEN msg.err ELSE a.vaultAIError,
                          !.vaultAIHistory = Answered(a.vaultAIHistory, msg)], fs, t, NoCmd, FALSE)
      [] msg.kind = "key" ->
            LET a1 == [a EXCEPT !.statusMsg = NoStatus]
            IN  CASE a.state = "List" -> updateList(a1, fs, t, d, msg.key)
                  [] a.state = "Viewer" -> updateViewer(a1, fs, t, d, msg.key)
                  [] a.state = "ConfirmDelete" -> updateConfirmDelete(a1, fs, t, d, msg.key)
                  [] a.state = "Help" -> updateHelp(a1, fs, t, d, msg.key)
                  [] a.state = "Search" -> updateSearch(a1, fs, t, d, msg.key)
                  [] a.state = "NewNote" -> updateNewNote(a1, fs, t, d, msg.key)
                  [] a.state = "TemplatePicker" -> updateTemplatePicker(a1, fs, t, d, msg.key)
                  [] a.state = "TemplateTitle" -> updateTemplateTitle(a1, fs, t, d, msg.key)
                  [] a.state = "AIPanel" -> updateAIPanel(a1, fs, t, d, msg.key)
                  [] a.state = "Links" -> updateLinks(a1, fs, t, d, msg.key)
                  [] a.state = "VaultAI" -> updateVaultAI(a1, fs, t, d, msg.key)

(***************************************************************************)
(* State.                                                                  *)
(***************************************************************************)
VARIABLES
    fmPc,       \* round trip: "idle", "in", "built" or "parsed"
    fmNote,     \* round trip: the note handed to BuildFrontmatter
    fmText,     \* round trip: the text built from it
    fmParsed,   \* round trip: the result of NoteFromRaw on that text
    files,      \* the notes directory
    now,        \* the clock, in ticks
    ret,        \* the last operation or event and what it returned
    app,        \* the session: the fields of App
    pending,    \* the commands Update has returned that have not run yet
    inbox,      \* the messages of finished commands, not yet handed to Update
    editing,    \* the editor the session is suspended for, or NoCmd
    proc,       \* "running", "quit" or "panicked"
    seen        \* what the user has pressed last (no state of the program)

fmVars == <<fmPc, fmNote, fmText, fmParsed>>
storeVars == <<files, now, ret>>
uiVars == <<app, pending, inbox, editing, proc, seen>>
vars == <<fmPc, fmNote, fmText, fmParsed, files, now, ret, app, pending, inbox, editing, proc, seen>>

NoParse == [panic |-> FALSE, note |-> NoNote]

FMIdle == fmPc = "idle" /\ fmNote = NoNote /\ fmText = <<>> /\ fmParsed = NoParse

\* What a step records: the operation, the id (or slug) it was about, a flag
\* (Create, CreateDaily: the id existed before; LoadAll: the directory could
\* be read), the error, the note returned, the note handed in, the list
\* returned.
Ret(op, id, flag, err, note, before, notes) ==
    [op |-> op, id |-> id, flag |-> flag, err |-> err, note |-> note,
     before |-> before, notes |-> notes]

NoRet == Ret("none", <<>>, FALSE, "none", NoNote, NoNote, <<>>)

EmptyDir == [name \in {} |-> Entry("file", <<>>, 0)]

StoreIdle == files = EmptyDir /\ now = 0 /\ ret = NoRet

\* What is remembered of the keys pressed.  g: the last key pressed, in
\* whatever state, was a g that did not complete a jump to the top.  navG:
\* the last key pressed in the list or the viewer was a g that did not
\* complete a jump, and the editor has not returned the session to the list
\* since.
Seen(g, navG) == [g |-> g, navG |-> navG]

NoSeen == Seen(FALSE, FALSE)

UIIdle ==
    /\ app = NewApp(FALSE) /\ pending = <<>> /\ inbox = <<>> /\ editing = NoCmd
    /\ proc = "running" /\ seen = NoSeen

(***************************************************************************)
(* The round trip of a note through its header: BuildFrontmatter, then     *)
(* NoteFromRaw on the text a Save would store.                             *)
(***************************************************************************)
\* All sequences over S of length at most n.
RECURSIVE SeqsUpTo(_, _)
SeqsUpTo(S, n) ==
    IF n = 0 THEN {<<>>}
    ELSE LET shorter == SeqsUpTo(S, n - 1)
         IN  shorter \cup {Append(s, c) : s \in shorter, c \in S}

FMTitleChars == {"a", " ", "\n", ":"}

FMTagPool == {<<"a">>, <<"b">>, <<"a", ",", "b">>, <<" ", "a">>, <<"\"", "a", "\"">>, <<>>}

FMBody == <<"b">>

FMId == <<"i", "d">>

\* A modification time no note of FMNotes carries.
FMModTime == MaxInstant + TicksPerSec

FMNotes ==
    {Note(FMId, title, tags, c, u, FMBody, <<>>, PathOf(FMId)) :
        title \in SeqsUpTo(FMTitleChars, MaxTitleLen),
        tags \in SeqsUpTo(FMTagPool, MaxTags),
        c \in 0..MaxInstant, u \in 0..MaxInstant}

FMInit ==
    /\ fmPc = "in" /\ fmNote \in FMNotes /\ fmText = <<>> /\ fmParsed = NoParse
    /\ StoreIdle
    /\ UIIdle

FMBuild ==
    /\ fmPc = "in"
    /\ fmText' = BuildFrontmatter(fmNote) \o fmNote.Body
    /\ fmPc' = "built"
    /\ UNCHANGED <<fmNote, fmParsed>>
    /\ UNCHANGED <<storeVars, uiVars>>

FMParse ==
    /\ fmPc = "built"
    /\ fmParsed' = NoteFromRaw(fmNote.ID, fmNote.Filename, fmText, FMModTime)
    /\ fmPc' = "parsed"
    /\ UNCHANGED <<fmNote, fmText>>
    /\ UNCHANGED <<storeVars, uiVars>>

FMNext == FMBuild \/ FMParse

SpecFM == FMInit /\ [][FMNext]_vars

(***************************************************************************)
(* The repository under its operations.  Every step records in ret the     *)
(* operation it was and what the operation returned.  Beside the program's *)
(* own operations, the editor writes a note's file and the clock ticks.    *)
(***************************************************************************)
TitleA == <<"A">>
SlugA == <<"a">>

TemplateBody == <<"b">>

\* No header at all.
RawPlain == <<"x">>
\* An opening delimiter and no closing one.
RawUnclosed == <<"-", "-", "-", "\n", "t", "i", "t", "l", "e", ":", " ", "t">>
\* A header with no line in it.
RawEmptyHeader == <<"-", "-", "-", "\n", "-", "-", "-", "\n", "x">>
\* No title, a malformed created, an updated of second 9, CRLF line ends.
RawPartial ==
    <<"-", "-", "-", "\r", "\n", "c", "r", "e", "a", "t", "e", "d", ":", " ", "x", "\r", "\n",
      "u", "p", "d", "a", "t", "e", "d", ":", " ", "9", "Z", "\r", "\n", "-", "-", "-", "\r", "\n", "x">>

ReadmeTxt == <<"r", ".", "t", "x", "t">>

\* By how many ticks the clock advances between two readings within one call.
Drift == {0, 1}

\* The ids of the entries named <id>.md.
IdsOf(fs) == {IdOfPath(name) : name \in {n \in DOMAIN fs : HasSuffix(n, ExtMd)}}

\* The ids Load and Delete are called with.
AskedIds(fs) == IdsOf(fs) \cup {SlugA}

SCreate(title, d) ==
    \E r \in {Create(files, title, <<>>, now, now + d)} :
        /\ now + d <= MaxClock
        /\ Cardinality(DOMAIN files) < MaxFiles
        /\ files' = r.fs
        /\ now' = now + d
        /\ ret' = Ret("Create", slugify(title, now), StatOK(files, PathOf(slugify(title, now))),
                      r.err, r.note, NoNote, <<>>)
        /\ UNCHANGED <<fmVars, uiVars>>

\* Create, note.Body = ..., Save: the new-note paths that fill in a template.
\* ret.before is the note returned by Create with its body set, ret.note the
\* note after Save.
SCreateSave(title, d1, d2) ==
    \E r \in {Create(files, title, <<>>, now, now + d1)} :
        \E s \in {Save(r.fs, [r.note EXCEPT !.Body = TemplateBody], now + d1 + d2)} :
            /\ now + d1 + d2 <= MaxClock
            /\ Cardinality(DOMAIN files) < MaxFiles
            /\ r.err = "none"
            /\ files' = s.fs
            /\ now' = now + d1 + d2
            /\ ret' = Ret("CreateSave", slugify(title, now),
                          StatOK(files, PathOf(slugify(title, now))),
                          s.err, s.note, [r.note EXCEPT !.Body = TemplateBody], <<>>)
            /\ UNCHANGED <<fmVars, uiVars>>

SCreateDaily(d) ==
    \E r \in {CreateDaily(files, now, now + d)} :
        \E existed \in {StatOK(files, PathOf(DailyId(now)))} :
            /\ now + d <= MaxClock
            /\ existed \/ Cardinality(DOMAIN files) < MaxFiles
            /\ existed => d = 0
            /\ files' = r.fs
            /\ now' = now + d
            /\ ret' = Ret("CreateDaily", DailyId(now), existed, r.err, r.note, NoNote, <<>>)
            /\ UNCHANGED <<fmVars, uiVars>>

SLoad(id) ==
    \E r \in {Load(files, id)} :
        /\ ret' = Ret("Load", id, FALSE, r.err, r.note, NoNote, <<>>)
        /\ UNCHANGED <<files, now>>
        /\ UNCHANGED <<fmVars, uiVars>>

SLoadAll(readable) ==
    \E r \in LoadAll(files, readable) :
        /\ ret' = Ret("LoadAll", <<>>, readable, r.err, NoNote, NoNote, r.notes)
        /\ UNCHANGED <<files, now>>
        /\ UNCHANGED <<fmVars, uiVars>>

SDelete(id) ==
    \E r \in {Delete(files, id)} :
        /\ files' = r.fs
        /\ ret' = Ret("Delete", id, FALSE, r.err, NoNote, NoNote, <<>>)
        /\ UNCHANGED now
        /\ UNCHANGED <<fmVars, uiVars>>

\* Another program (the editor, a file manager) puts an entry into the
\* directory: it writes a file, makes a directory or locks a file.
ExternalPut(name, entry) ==
    /\ name \in DOMAIN files \/ Cardinality(DOMAIN files) < MaxFiles
    /\ files' = [k \in (DOMAIN files) \cup {name} |-> IF k = name THEN entry ELSE files[k]]
    /\ ret' = Ret("External", IdOfPath(name), FALSE, "none", NoNote, NoNote, <<>>)
    /\ UNCHANGED now
    /\ UNCHANGED <<fmVars, uiVars>>

Tick ==
    /\ now < MaxClock
    /\ now' = now + 1
    /\ ret' = Ret("Tick", <<>>, FALSE, "none", NoNote, NoNote, <<>>)
    /\ UNCHANGED files
    /\ UNCHANGED <<fmVars, uiVars>>

StoreInit == StoreIdle /\ FMIdle /\ UIIdle

StoreNext ==
    \/ \E d \in Drift : SCreate(TitleA, d)
    \/ \E d1 \in Drift, d2 \in Drift : SCreateSave(TitleA, d1, d2)
    \/ \E d \in Drift : SCreateDaily(d)
    \/ \E id \in AskedIds(files) : SLoad(id)
    \/ \E id \in AskedIds(files) : SDelete(id)
    \/ ExternalPut(PathOf(SlugA), Entry("file", RawPlain, now))
    \/ Tick

SpecStore == StoreInit /\ [][StoreNext]_vars

(***************************************************************************)
(* Listing and loading a directory as the program finds it: notes the      *)
(* program wrote, files other programs wrote (with a partial, malformed or *)
(* missing header), files it cannot open, directories and entries without  *)
(* the .md suffix.                                                         *)
(***************************************************************************)
ListNow == MaxClock

\* A file as Save writes it.
RawSaved == BuildFrontmatter(Note(SlugA, TitleA, <<>>, 0, 0, <<>>, <<>>, PathOf(SlugA))) \o TemplateBody

\* The entries named <id>.md that a directory may hold.
EntryPool ==
    {Entry("file", raw, t) : raw \in {RawSaved, RawPlain, RawUnclosed, RawPartial, RawEmptyHeader},
                             t \in {ListNow}}
    \cup {Entry("dir", <<>>, 0), Entry("locked", RawSaved, 0)}

ListNames == {PathOf(SlugA), PathOf(Suffixed(SlugA, 2)), PathOf(Suffixed(SlugA, 3)), ReadmeTxt}

\* The directories of at most MaxEntries entries.
ListDirs ==
    UNION {[names -> EntryPool] : names \in {N \in SUBSET ListNames : Cardinality(N) <= MaxEntries}}

ListInit ==
    /\ files \in {d \in ListDirs : ReadmeTxt \in DOMAIN d => d[ReadmeTxt] = Entry("file", RawPlain, ListNow)}
    /\ now = ListNow
    /\ ret = NoRet
    /\ FMIdle
    /\ UIIdle

ListNext ==
    \/ \E id \in AskedIds(files) : SLoad(id)
    \/ \E readable \in BOOLEAN : SLoadAll(readable)

SpecList == ListInit /\ [][ListNext]_vars

(***************************************************************************)
(* The session over a notes directory.  Commands run beside the event      *)
(* loop: a command Update has returned is pending until it runs, and the   *)
(* message it produces waits in the inbox until the loop hands it to       *)
(* Update.  While the editor runs the loop is suspended.  Spec is the       *)
(* session of a user who moves down the list and deletes notes: the keys   *)
(* are j and d in the list and every kind of key in the confirmation.      *)
(***************************************************************************)
\* The k-th note of the directory the session starts on, as Save wrote it.
StartNote(k) ==
    LET id == IF k = 1 THEN SlugA ELSE Suffixed(SlugA, k)
        n == Note(id, TitleA, <<>>, 0, 0, <<>>, <<>>, PathOf(id))
    IN  Entry("file", BuildFrontmatter(n) \o TemplateBody, 0)

StartName(k) == PathOf(IF k = 1 THEN SlugA ELSE Suffixed(SlugA, k))

\* main.go's ensureWelcome leaves no session an empty directory.
StartDirs ==
    {[name \in {StartName(k) : k \in 1..n} |->
        StartNote(CHOOSE k \in 1..n : StartName(k) = name)] : n \in 1..MaxNotes}

Heights == {HeaderRows + MaxRows}

ListKeys == {"j", "d"}
ViewerKeys == {"esc", "e", "g", "j", "?"}
ConfirmKeys == {"y", "Y", "enter", "n", "N", "esc", "q", "d", "j"}
HelpKeys == {"esc", "?", "j"}

KeysIn(state) ==
    CASE state = "List" -> ListKeys
      [] state = "Viewer" -> ViewerKeys
      [] state = "ConfirmDelete" -> ConfirmKeys
      [] state = "Help" -> HelpKeys

\* What the editor's user leaves in the file.
EditRaws == {RawPlain, RawEmptyHeader}

Without(q, i) == SubSeq(q, 1, i - 1) \o SubSeq(q, i + 1, Len(q))

Event(op, key) == Ret(op, key, FALSE, "none", NoNote, NoNote, <<>>)

\* The message a command of a kind produces.
Produces(kind) ==
    CASE kind = "loadNotes" -> "notesLoaded"
      [] kind = "editor" -> "editorClosed"
      [] kind = "askAI" -> "aiResponse"
      [] kind = "askVault" -> "vaultAIResponse"
      [] OTHER -> "none"

\* The commands of a kind that have been returned and whose message Update
\* has not got yet.
InFlight(kind) ==
    Cardinality({i \in 1..Len(pending) : pending[i].kind = kind})
        + Cardinality({i \in 1..Len(inbox) : inbox[i].kind = Produces(kind)})
        + (IF editing.kind = kind THEN 1 ELSE 0)

\* The commands of a kind the model lets be in flight together.
Limit(kind) == IF kind \in {"askAI", "askVault"} THEN MaxAsks ELSE MaxPending

\* The sizes the model keeps a session in: the characters its inputs hold
\* together, and the entries of its two histories together.
Bounded(a) ==
    /\ Len(a.searchInput) + Len(a.newNoteInput) + Len(a.templateTitleIn)
          + Len(a.aiInput) + Len(a.vaultAIInput) <= MaxInput
    /\ Len(a.aiHistory) + Len(a.vaultAIHistory) <= MaxHistory

\* Whether the key g, pressed in state, has completed the jump to the top
\* that leaves the session as b.
Jumped(state, key, b) ==
    /\ key = "g" /\ state \in {"List", "Viewer"}
    /\ b.lastKey = ""
    /\ state = "List" => b.cursor = 0 /\ b.listOffset = 0

SeenKey(state, key, jumped) ==
    IF state \in {"List", "Viewer"} THEN Seen(key = "g" /\ ~jumped, key = "g" /\ ~jumped)
    ELSE Seen(key = "g" /\ ~jumped, seen.navG)

\* The event loop hands a key to Update.
Key(key, d) ==
    /\ proc = "running" /\ editing = NoCmd
    /\ \E o \in {Update(app, files, now, d, KeyMsg(key))} :
        \E runs \in {Produces(o.cmd.kind) # "none" /\ ~o.panic} :
            /\ o.t = now + d
            /\ o.t <= MaxClock
            /\ Cardinality(DOMAIN o.fs) <= MaxFiles
            /\ runs => InFlight(o.cmd.kind) < Limit(o.cmd.kind)
            /\ Bounded(o.a)
            /\ app' = o.a
            /\ files' = o.fs
            /\ now' = o.t
            /\ proc' = IF o.panic THEN "panicked"
                       ELSE IF o.cmd.kind = "quit" THEN "quit" ELSE "running"
            /\ pending' = IF runs THEN Append(pending, o.cmd) ELSE pending
            /\ seen' = SeenKey(app.state, key, ~o.panic /\ Jumped(app.state, key, o.a))
    /\ ret' = Event("Key", <<key>>)
    /\ UNCHANGED <<inbox, editing>>
    /\ UNCHANGED fmVars

\* The terminal is resized.
Resize(h) ==
    /\ proc = "running" /\ editing = NoCmd
    /\ h # app.height
    /\ \E o \in {Update(app, files, now, 0, WindowSizeMsg(h))} : app' = o.a
    /\ ret' = Event("Resize", <<>>)
    /\ UNCHANGED <<files, now, pending, inbox, editing, proc, seen>>
    /\ UNCHANGED fmVars

\* The pending command at place i runs: cmdLoadNotes reads the directory,
\* cmdOpenEditor suspends the loop and starts the editor.
RunLoadNotes(i, readable) ==
    /\ proc = "running"
    /\ i \in 1..Len(pending) /\ pending[i].kind = "loadNotes"
    /\ \E r \in LoadAll(files, readable) :
          /\ proc' = IF r.err = "panic" THEN "panicked" ELSE "running"
          /\ inbox' = IF r.err = "panic" THEN inbox ELSE Append(inbox, notesLoadedMsg(r.notes, r.err))
    /\ pending' = Without(pending, i)
    /\ ret' = Event("RunLoadNotes", <<>>)
    /\ UNCHANGED <<files, now, app, editing, seen>>
    /\ UNCHANGED fmVars

RunEditor(i) ==
    /\ proc = "running" /\ editing = NoCmd
    /\ i \in 1..Len(pending) /\ pending[i].kind = "editor"
    /\ editing' = pending[i]
    /\ pending' = Without(pending, i)
    /\ ret' = Event("RunEditor", <<>>)
    /\ UNCHANGED <<files, now, app, inbox, proc, seen>>
    /\ UNCHANGED fmVars

\* The user saves the file in the editor.
EditorWrite(raw) ==
    /\ proc = "running" /\ editing # NoCmd
    /\ files' = [k \in (DOMAIN files) \cup {editing.filename} |->
                    IF k = editing.filename THEN Entry("file", raw, now) ELSE files[k]]
    /\ files' # files
    /\ ret' = Event("EditorWrite", <<>>)
    /\ UNCHANGED <<now, app, pending, inbox, editing, proc, seen>>
    /\ UNCHANGED fmVars

\* The file the editor was started on is removed while the editor runs (by
\* its user, or by another program).
EditorRemove ==
    /\ proc = "running" /\ editing # NoCmd
    /\ editing.filename \in DOMAIN files
    /\ files' = [k \in (DOMAIN files) \ {editing.filename} |-> files[k]]
    /\ ret' = Event("EditorRemove", <<>>)
    /\ UNCHANGED <<now, app, pending, inbox, editing, proc, seen>>
    /\ UNCHANGED fmVars

\* The editor exits: the callback of cmdOpenEditor reads the directory.
EditorExit(err, readable) ==
    /\ proc = "running" /\ editing # NoCmd
    /\ \E r \in LoadAll(files, readable) :
          /\ proc' = IF r.err = "panic" THEN "panicked" ELSE "running"
          /\ inbox' = IF r.err = "panic" THEN inbox
                      ELSE IF r.err # "none" THEN Append(inbox, editorClosedMsg(<<>>, <<>>, r.err))
                      ELSE Append(inbox, editorClosedMsg(r.notes, editing.id, err))
    /\ editing' = NoCmd
    /\ ret' = Event("EditorExit", <<>>)
    /\ UNCHANGED <<files, now, app, pending, seen>>
    /\ UNCHANGED fmVars

\* What a call of the AI service may come to: an answer, or a failure.
Reply(response, err) == [response |-> response, err |-> err]

AskOutcomes == {Reply(<<"r">>, "none"), Reply(<<>>, "timeout")}

\* Client.Ask and Client.AskVault: without a key the error of the missing
\* configuration, else what the call comes to.
\* The context AskVault sends: the bodies of the notes, a string being the
\* sequence of its bytes.
maxNotes == 20
truncateAt == 500

TruncateMark == <<".", ".", ".">>

NoteContext(title, tags, body) == [Title |-> title, Tags |-> tags, Body |-> body]

\* body[:truncateAt] + "..." of AskVault, for a vault of count notes.
TruncateBody(count, body) ==
    IF count > maxNotes /\ Len(body) > truncateAt
    THEN SubSeq(body, 1, truncateAt) \o TruncateMark
    ELSE body

\* The bodies AskVault writes into the prompt, in the order of the notes.
VaultBodies(notesCtx) ==
    [i \in 1..Len(notesCtx) |-> TruncateBody(Len(notesCtx), notesCtx[i].Body)]

\* What the service has done with a request: the error of the transport
\* (none, or the timeout of the client among others), the error of reading
\* the body, whether the body is the JSON of a response, the error the
\* service reports in it, and the candidates, each the parts of its text.
Result(post, read, parses, error, candidates) ==
    [post |-> post, read |-> read, parses |-> parses, error |-> error,
     candidates |-> candidates]

\* A Respond that takes the text of the first candidate without looking
\* whether there is one: no candidate, no text.
RespondUnchecked(result) ==
    IF result.post # "none" THEN Reply(<<>>, result.post)
    ELSE IF result.read # "none" THEN Reply(<<>>, result.read)
    ELSE IF ~result.parses THEN Reply(<<>>, "parse error")
    ELSE IF result.error # "none" THEN Reply(<<>>, "API error")
    ELSE IF Len(result.candidates) = 0 THEN Reply(<<>>, "none")
    ELSE Reply(Join(result.candidates[1], <<>>), "none")

\* Ask and AskVault from the request on: the text of the first candidate, or
\* the error.
Respond(result) ==
    IF result.post # "none" THEN Reply(<<>>, result.post)
    ELSE IF result.read # "none" THEN Reply(<<>>, result.read)
    ELSE IF ~result.parses THEN Reply(<<>>, "parse error")
    ELSE IF result.error # "none" THEN Reply(<<>>, "API error")
    ELSE IF Len(result.candidates) = 0 THEN Reply(<<>>, "no response from API")
    ELSE Reply(Join(result.candidates[1], <<>>), "none")

\* An Ask that sends the request before it looks for the key.
AskPostsFirst(available, outcome) ==
    IF ~available THEN [response |-> <<>>, err |-> "nokey", posts |-> 1]
    ELSE [response |-> outcome.response, err |-> outcome.err, posts |-> 1]

\* posts counts the requests the call has sent to the service.
Ask(available, outcome) ==
    IF ~available THEN [response |-> <<>>, err |-> "nokey", posts |-> 0]
    ELSE [response |-> outcome.response, err |-> outcome.err, posts |-> 1]

\* What a call of the client has come to: its error, and whether it has sent
\* a request to the service.
Called(op, r) == Ret(op, <<>>, r.posts > 0, r.err, NoNote, NoNote, <<>>)

\* The pending command at place i, a question about the open note, runs.
\* The command of a session without an open note dereferences nil.
RunAskAI(i, outcome) ==
    /\ proc = "running"
    /\ i \in 1..Len(pending) /\ pending[i].kind = "askAI"
    /\ \E r \in {Ask(app.available, outcome)} :
          IF pending[i].filename = <<>>
          THEN proc' = "panicked" /\ inbox' = inbox
          ELSE proc' = proc
               /\ inbox' = Append(inbox, aiResponseMsg(r.response, r.err, pending[i].question))
    /\ pending' = Without(pending, i)
    /\ ret' = Called("RunAskAI", Ask(app.available, outcome))
    /\ UNCHANGED <<files, now, app, editing, seen>>
    /\ UNCHANGED fmVars

\* The pending command at place i, a question about the vault, runs.
RunAskVault(i, outcome) ==
    /\ proc = "running"
    /\ i \in 1..Len(pending) /\ pending[i].kind = "askVault"
    /\ \E r \in {Ask(app.available, outcome)} :
          inbox' = Append(inbox, vaultAIResponseMsg(r.response, r.err, pending[i].question))
    /\ pending' = Without(pending, i)
    /\ ret' = Called("RunAskVault", Ask(app.available, outcome))
    /\ UNCHANGED <<files, now, app, editing, proc, seen>>
    /\ UNCHANGED fmVars

\* The event loop hands the oldest message to Update.
Deliver ==
    /\ proc = "running" /\ editing = NoCmd
    /\ inbox # <<>>
    /\ \E o \in {Update(app, files, now, 0, Head(inbox))} :
          /\ app' = o.a
          /\ seen' = IF Head(inbox).kind = "editorClosed" /\ o.a.state = "List"
                     THEN [seen EXCEPT !.navG = FALSE] ELSE seen
    /\ inbox' = Tail(inbox)
    /\ ret' = Event("Deliver", <<>>)
    /\ UNCHANGED <<files, now, pending, editing, proc>>
    /\ UNCHANGED fmVars

\* Another program removes an entry of the directory.
ExternalRemove(name) ==
    /\ name \in DOMAIN files
    /\ files' = [k \in (DOMAIN files) \ {name} |-> files[k]]
    /\ ret' = Ret("ExternalRemove", IdOfPath(name), FALSE, "none", NoNote, NoNote, <<>>)
    /\ UNCHANGED now
    /\ UNCHANGED <<fmVars, uiVars>>

\* Init() returns cmdLoadNotes.
Init ==
    /\ files \in StartDirs
    /\ now = 0
    /\ ret = NoRet
    /\ app = NewApp(FALSE)
    /\ pending = <<cmdLoadNotes>>
    /\ inbox = <<>>
    /\ editing = NoCmd
    /\ proc = "running"
    /\ seen = NoSeen
    /\ FMIdle

Next ==
    \/ \E key \in KeysIn(app.state) : Key(key, 0)
    \/ \E i \in 1..MaxPending, readable \in BOOLEAN : RunLoadNotes(i, readable)
    \/ Deliver

Spec == Init /\ [][Next]_vars

(***************************************************************************)
(* The session of a user who asks the AI service: about the open note in   *)
(* the AI panel of the viewer, about the vault in the panel of the list.   *)
(* The service answers or fails, when it likes.                            *)
(***************************************************************************)
AIKeysIn(state) ==
    CASE state = "List" -> {"enter", "@"}
      [] state = "Viewer" -> {"a", "esc"}
      [] state \in {"AIPanel", "VaultAI"} -> {"x", " ", "enter", "esc", "ctrl+c"}
      [] OTHER -> {}

AIInit ==
    /\ files \in {dir \in StartDirs : Cardinality(DOMAIN dir) = 1}
    /\ now = 0
    /\ ret = NoRet
    /\ app = NewApp(TRUE)
    /\ pending = <<cmdLoadNotes>>
    /\ inbox = <<>>
    /\ editing = NoCmd
    /\ proc = "running"
    /\ seen = NoSeen
    /\ FMIdle

AINext ==
    \/ \E key \in AIKeysIn(app.state) : Key(key, 0)
    \/ \E i \in 1..Len(pending) : RunLoadNotes(i, TRUE)
    \/ \E i \in 1..Len(pending), outcome \in AskOutcomes : RunAskAI(i, outcome)
    \/ \E i \in 1..Len(pending), outcome \in AskOutcomes : RunAskVault(i, outcome)
    \/ Deliver

SpecAI == AIInit /\ [][AINext]_vars

\* The same session when every command that has been returned runs and
\* every message is handed to Update: a command runs in a goroutine of its
\* own as soon as it is returned and its call comes back, and the event loop
\* takes the messages in the order in which they are sent.
SpecAILive ==
    /\ SpecAI
    /\ WF_vars(\E i \in 1..Len(pending), outcome \in AskOutcomes : RunAskAI(i, outcome))
    /\ WF_vars(\E i \in 1..Len(pending), outcome \in AskOutcomes : RunAskVault(i, outcome))
    /\ WF_vars(Deliver)

(***************************************************************************)
(* The session of a user who asks about the open note and edits it.  The   *)
(* command that starts the editor runs beside the event loop like every    *)
(* command: the loop hands the keys that were typed after the key e to     *)
(* Update until the command has run.                                       *)
(***************************************************************************)
AskEditKeysIn(state) ==
    CASE state = "List" -> {"enter"}
      [] state = "Viewer" -> {"a", "e", "esc"}
      [] state = "AIPanel" -> {"x", "y", "enter", "esc"}
      [] OTHER -> {}

AskEditNext ==
    \/ \E key \in AskEditKeysIn(app.state) : Key(key, 0)
    \/ \E i \in 1..Len(pending) : RunLoadNotes(i, TRUE)
    \/ \E i \in 1..Len(pending) : RunEditor(i)
    \/ EditorExit("none", TRUE)
    \/ \E i \in 1..Len(pending) : RunAskAI(i, Reply(<<"r">>, "none"))
    \/ Deliver

SpecAskEdit == AIInit /\ [][AskEditNext]_vars

(***************************************************************************)
(* The session of a user who opens and deletes the notes of the list.  A   *)
(* reload may fail.                                                        *)
(***************************************************************************)
DeleteKeysIn(state) ==
    CASE state = "List" -> {"j", "d", "enter"}
      [] state = "Viewer" -> {"d", "esc"}
      [] state = "ConfirmDelete" -> {"y", "enter", "n", "d"}
      [] OTHER -> {}

DeleteNext ==
    \/ \E key \in DeleteKeysIn(app.state) : Key(key, 0)
    \/ \E i \in 1..Len(pending), readable \in BOOLEAN : RunLoadNotes(i, readable)
    \/ Deliver

SpecDelete == Init /\ [][DeleteNext]_vars

(***************************************************************************)
(* The session of a user who opens a note from the list, from the search   *)
(* and from the links panel, while another program rewrites or removes the *)
(* file of the note.                                                       *)
(***************************************************************************)
LinkBody == OpenLink \o TitleA \o CloseLink

\* The note A, whose body links to A.
RawLinked ==
    BuildFrontmatter(Note(SlugA, TitleA, <<>>, 0, 0, <<>>, <<>>, PathOf(SlugA))) \o LinkBody

OpenKeysIn(state) ==
    CASE state = "List" -> {"enter", "/", "r"}
      [] state = "Search" -> {"a", "enter", "esc"}
      [] state = "Viewer" -> {"L", "esc"}
      [] state = "Links" -> {"enter", "j", "esc"}
      [] OTHER -> {}

OpenInit ==
    /\ files = [name \in {StartName(1)} |-> Entry("file", RawLinked, 0)]
    /\ now = 0
    /\ ret = NoRet
    /\ app = NewApp(FALSE)
    /\ pending = <<cmdLoadNotes>>
    /\ inbox = <<>>
    /\ editing = NoCmd
    /\ proc = "running"
    /\ seen = NoSeen
    /\ FMIdle

OpenNext ==
    \/ \E key \in OpenKeysIn(app.state) : Key(key, 0)
    \/ \E i \in 1..Len(pending) : RunLoadNotes(i, TRUE)
    \/ Deliver
    \/ \E raw \in {RawLinked, RawSaved} : ExternalPut(StartName(1), Entry("file", raw, 0))
    \/ ExternalRemove(StartName(1))

SpecOpen == OpenInit /\ [][OpenNext]_vars

(***************************************************************************)
(* The session of a user who moves in the list and in the viewer with g    *)
(* and edits the open note.  The keys typed after the key e are handled    *)
(* until the editor has the terminal; the reload of the editor may fail.   *)
(***************************************************************************)
NavKeysIn(state) ==
    CASE state = "List" -> {"g", "j", "enter"}
      [] state = "Viewer" -> {"g", "e"}
      [] OTHER -> {}

NavNext ==
    \/ \E key \in NavKeysIn(app.state) : Key(key, 0)
    \/ \E i \in 1..Len(pending) : RunLoadNotes(i, TRUE)
    \/ \E i \in 1..Len(pending) : RunEditor(i)
    \/ \E readable \in BOOLEAN : EditorExit("none", readable)
    \/ Deliver

SpecNav == Init /\ [][NavNext]_vars

(***************************************************************************)
(* The session of a user who moves the cursor of the list, in a terminal   *)
(* of one row of notes or more, and edits the open note; in the editor the *)
(* file of the note may be removed.                                        *)
(***************************************************************************)
ScrollKeysIn(state) ==
    CASE state = "List" -> {"j", "k", "G", "enter"}
      [] state = "Viewer" -> {"e"}
      [] OTHER -> {}

ScrollNext ==
    \/ \E key \in ScrollKeysIn(app.state) : InFlight("editor") = 0 /\ Key(key, 0)
    \/ \E h \in Heights \cup {HeaderRows + 1} : Resize(h)
    \/ \E i \in 1..Len(pending) : RunLoadNotes(i, TRUE)
    \/ \E i \in 1..Len(pending) : RunEditor(i)
    \/ EditorRemove
    \/ EditorExit("none", TRUE)
    \/ Deliver

SpecScroll == Init /\ [][ScrollNext]_vars

(***************************************************************************)
(* The session of a user who creates notes (plain, from a template, the    *)
(* daily note), edits them in the editor and deletes them.  In the editor  *)
(* the user saves the file or removes it; the user types nothing between   *)
(* the key that calls for the editor and the editor.                       *)
(***************************************************************************)
EditKeysIn(state) ==
    CASE state = "List" -> {"n", "N", "t", "d", "enter"}
      [] state = "Viewer" -> {"e", "esc"}
      [] state = "NewNote" -> {"x", "enter", "esc"}
      [] state = "TemplatePicker" -> {"enter", "esc"}
      [] state = "TemplateTitle" -> {"x", "enter", "esc"}
      [] state = "ConfirmDelete" -> {"y", "n"}
      [] OTHER -> {}

EditNext ==
    \/ \E key \in EditKeysIn(app.state) : InFlight("editor") = 0 /\ Key(key, 0)
    \/ \E i \in 1..Len(pending) : RunLoadNotes(i, TRUE)
    \/ \E i \in 1..Len(pending) : RunEditor(i)
    \/ EditorWrite(RawPlain)
    \/ EditorRemove
    \/ EditorExit("none", TRUE)
    \/ Deliver

SpecEdit == AIInit /\ [][EditNext]_vars

(***************************************************************************)
(* The session of a user who asks about the open note and then calls for   *)
(* the daily note: the editor returns the session to the viewer on a note  *)
(* that openNote has not opened.  The user types nothing between the key   *)
(* that calls for the editor and the editor.                               *)
(***************************************************************************)
HistKeysIn(state) ==
    CASE state = "List" -> {"enter", "t"}
      [] state = "Viewer" -> {"a", "esc"}
      [] state = "AIPanel" -> {"x", "enter", "esc"}
      [] OTHER -> {}

HistNext ==
    \/ \E key \in HistKeysIn(app.state) : InFlight("editor") = 0 /\ Key(key, 0)
    \/ \E i \in 1..Len(pending) : RunLoadNotes(i, TRUE)
    \/ \E i \in 1..Len(pending) : RunEditor(i)
    \/ EditorExit("none", TRUE)
    \/ \E i \in 1..Len(pending) : RunAskAI(i, Reply(<<"r">>, "none"))
    \/ Deliver

SpecHist == AIInit /\ [][HistNext]_vars

(***************************************************************************)
(* The session of a user who deletes notes while the list is reloaded:     *)
(* the reload of r can complete between the key d and the confirmation,    *)
(* with the notes in another order or without the notes deleted before.    *)
(***************************************************************************)
TargetKeysIn(state) ==
    CASE state = "List" -> {"j", "d", "r"}
      [] state = "ConfirmDelete" -> {"y", "n"}
      [] OTHER -> {}

TargetNext ==
    \/ \E key \in TargetKeysIn(app.state) : Key(key, 0)
    \/ \E i \in 1..Len(pending) : RunLoadNotes(i, TRUE)
    \/ Deliver

SpecTarget == Init /\ [][TargetNext]_vars

(***************************************************************************)
(* The session of a user who is on a note: in the viewer, its AI panel,    *)
(* its links panel and the help, and in the editor, where the file of the  *)
(* note may be removed.  After the key e the user may type one question    *)
(* before the editor has the terminal.                                     *)
(***************************************************************************)
CurrentKeysIn(state) ==
    CASE state = "List" -> {"enter"}
      [] state = "Viewer" -> {"a", "L", "e", "?", "esc"}
      [] state = "AIPanel" -> {"x", "enter", "esc"}
      [] state = "Links" -> {"enter", "esc"}
      [] state = "Help" -> {"esc"}
      [] OTHER -> {}

\* The keys typed between the key e and the editor.
AheadKeysIn(state) ==
    CASE state = "Viewer" -> {"a"}
      [] state = "AIPanel" -> {"x", "enter"}
      [] OTHER -> {}

CurrentInit ==
    /\ files = [name \in {StartName(1)} |-> Entry("file", RawLinked, 0)]
    /\ now = 0
    /\ ret = NoRet
    /\ app = NewApp(TRUE)
    /\ pending = <<cmdLoadNotes>>
    /\ inbox = <<>>
    /\ editing = NoCmd
    /\ proc = "running"
    /\ seen = NoSeen
    /\ FMIdle

CurrentNext ==
    \/ \E key \in CurrentKeysIn(app.state) : InFlight("editor") = 0 /\ Key(key, 0)
    \/ \E key \in AheadKeysIn(app.state) :
          InFlight("editor") > 0 /\ InFlight("askAI") = 0 /\ Key(key, 0)
    \/ \E i \in 1..Len(pending) : RunLoadNotes(i, TRUE)
    \/ \E i \in 1..Len(pending) : RunEditor(i)
    \/ EditorRemove
    \/ EditorExit("none", TRUE)
    \/ \E i \in 1..Len(pending) : RunAskAI(i, Reply(<<"r">>, "none"))
    \/ Deliver

SpecCurrent == CurrentInit /\ [][CurrentNext]_vars

(***************************************************************************)
(* The session of a user who edits the open note and deletes notes, and    *)
(* who types on after the key e: the keys are handled until the editor has *)
(* the terminal.                                                           *)
(***************************************************************************)
TypeAheadKeysIn(state) ==
    CASE state = "List" -> {"enter", "d"}
      [] state = "Viewer" -> {"e", "esc"}
      [] state = "ConfirmDelete" -> {"y", "n"}
      [] OTHER -> {}

TypeAheadNext ==
    \/ \E key \in TypeAheadKeysIn(app.state) : Key(key, 0)
    \/ \E i \in 1..Len(pending) : RunLoadNotes(i, TRUE)
    \/ \E i \in 1..Len(pending) : RunEditor(i)
    \/ EditorExit("none", TRUE)
    \/ Deliver

SpecTypeAhead == Init /\ [][TypeAheadNext]_vars

(***************************************************************************)
(* The collision loop of Create, one turn at a time.  os.Stat answers for  *)
(* the directory as it is at the call: a directory that cannot be searched *)
(* (its permissions, or its path, changed by another program) answers      *)
(* every path with an error that is not the not-found error, and a link    *)
(* that leads to itself answers with such an error for its own path.       *)
(***************************************************************************)
\* The error of os.Stat(path): "none", "notexist", or another error.
Stat(fs, searchable, path) ==
    IF ~searchable THEN "denied"
    ELSE IF path \notin DOMAIN fs THEN "notexist"
    ELSE IF fs[path].kind = "loop" THEN "loop"
    ELSE "none"

\* The variables of the loop: the slug, the candidate, the next suffix, and
\* whether the loop has been left.
Loop(base, id, i, left) == [base |-> base, id |-> id, i |-> i, left |-> left]

\* i++ on an int, of IntBits bits here: past the largest value it goes on
\* from the smallest.
Incremented(i) == ((i + 1 + 2^(IntBits - 1)) % 2^IntBits) - 2^(IntBits - 1)

\* fmt.Sprintf("%s-%d", base, i)
SuffixedInt(base, i) ==
    IF i < 0 THEN base \o <<"-", "-">> \o Itoa(0 - i) ELSE Suffixed(base, i)

\* One turn of the loop: break when os.IsNotExist(err), else the next
\* candidate.
ProbeTurn(fs, searchable, l) ==
    IF Stat(fs, searchable, PathOf(l.id)) = "notexist" THEN [l EXCEPT !.left = TRUE]
    ELSE [l EXCEPT !.id = SuffixedInt(l.base, l.i), !.i = Incremented(l.i)]

ProbeNames == {PathOf(SlugA), PathOf(Suffixed(SlugA, 2)), PathOf(Suffixed(SlugA, 3))}

ProbeDirs ==
    UNION {[names -> {Entry("file", RawSaved, 0), Entry("loop", <<>>, 0)}] :
              names \in SUBSET ProbeNames}

ProbeTitles == {TitleA, <<"b">>}

ProbeInit ==
    /\ fmPc = "probing"
    /\ fmNote \in {Loop(slugify(title, 0), slugify(title, 0), 2, FALSE) : title \in ProbeTitles}
    /\ fmText = <<>> /\ fmParsed = NoParse
    /\ files \in ProbeDirs
    /\ now = 0 /\ ret = NoRet
    /\ UIIdle

\* The loop takes a turn.
ProbeStep(searchable) ==
    /\ fmPc = "probing"
    /\ \E l \in {ProbeTurn(files, searchable, fmNote)} :
          /\ fmNote' = l
          /\ fmPc' = IF l.left THEN "done" ELSE "probing"
          /\ fmText' = IF l.left THEN l.id ELSE fmText
    /\ ret' = Ret("Stat", fmNote.id, searchable, Stat(files, searchable, PathOf(fmNote.id)),
                  NoNote, NoNote, <<>>)
    /\ UNCHANGED <<fmParsed, files, now>>
    /\ UNCHANGED uiVars

ProbeNext == \E searchable \in BOOLEAN : ProbeStep(searchable)

SpecProbe == ProbeInit /\ [][ProbeNext]_vars

\* The loop never waits: as long as it has not been left it takes its next
\* turn.
SpecProbeLive == SpecProbe /\ WF_vars(ProbeNext)

(***************************************************************************)
(* Claims about the header round trip.                                     *)
(***************************************************************************)
Chars(s) == {s[k] : k \in 1..Len(s)}

TagSet(tags) == {tags[k] : k \in 1..Len(tags)}

ValidTitle(t) ==
    /\ t # <<>>
    /\ TrimSpace(t) = t
    /\ Chars(t) \cap {"\n", "\r"} = {}

ValidTag(t) ==
    /\ t # <<>>
    /\ Chars(t) \cap {",", "\n", "\r"} = {}
    /\ TrimSpace(t) = t
    /\ Trim(t, {"\"", "'"}) = t
    /\ Trim(t, {"[", "]"}) = t

\* A note whose title is one non-empty line without surrounding white space
\* and whose tags are non-empty, free of commas and line breaks, and free of
\* surrounding white space, quotes and brackets.
ValidNote(n) == ValidTitle(n.Title) /\ \A k \in 1..Len(n.Tags) : ValidTag(n.Tags[k])

WholeSeconds(t) == (t \div TicksPerSec) * TicksPerSec

\* C3 as stated: for every valid note, parsing the header built from it gives
\* the same title, the same set of tags and the same created and updated
\* instants.
C3_RoundTripExact ==
    (fmPc = "parsed" /\ ValidNote(fmNote)) =>
        /\ ~fmParsed.panic
        /\ fmParsed.note.Title = fmNote.Title
        /\ TagSet(fmParsed.note.Tags) = TagSet(fmNote.Tags)
        /\ fmParsed.note.Created = fmNote.Created
        /\ fmParsed.note.Updated = fmNote.Updated

\* C3 amended: for every valid note, parsing the header built from it gives
\* the same title, the same tags, and the created and updated instants cut to
\* whole seconds.
C3_RoundTripSeconds ==
    (fmPc = "parsed" /\ ValidNote(fmNote)) =>
        /\ ~fmParsed.panic
        /\ fmParsed.note.Title = fmNote.Title
        /\ fmParsed.note.Tags = fmNote.Tags
        /\ fmParsed.note.Created = WholeSeconds(fmNote.Created)
        /\ fmParsed.note.Updated = WholeSeconds(fmNote.Updated)

\* A valid note with a tag and instants inside a second has been built and parsed.
C3_Witness ==
    /\ fmPc = "parsed"
    /\ ValidNote(fmNote)
    /\ fmNote.Tags # <<>>
    /\ fmNote.Created % TicksPerSec # 0
    /\ fmNote.Updated # fmNote.Created
    /\ fmParsed.note.Updated = WholeSeconds(fmNote.Updated)

(***************************************************************************)
(* Claims about the repository.                                            *)
(***************************************************************************)
\* The k-th id of the probe sequence slug, slug-2, slug-3, ...
Candidate(base, k) == IF k = 1 THEN base ELSE Suffixed(base, k)

\* The first id of the probe sequence that the directory does not hold.
FirstFree(fs, base) ==
    Candidate(base, Min({k \in 1..(Cardinality(DOMAIN fs) + 1) :
                            PathOf(Candidate(base, k)) \notin DOMAIN fs}))

\* Every entry of fs is in gs as it was.
Keeps(fs, gs) == \A name \in DOMAIN fs : name \in DOMAIN gs /\ gs[name] = fs[name]

\* C1: a CreateDaily that succeeds returns the note whose id is "daily-" +
\* the date of the call, that id is stored afterwards, and when it was stored
\* already (the second call of a day) the call returns the stored note and
\* leaves the whole repository, that note's file included, as it was.
C1_DailyIdempotent ==
    [][(ret'.op = "CreateDaily" /\ ret'.err = "none") =>
          /\ ret'.note.ID = DailyId(now)
          /\ ret'.id = DailyId(now)
          /\ StatOK(files', PathOf(DailyId(now)))
          /\ Keeps(files, files')
          /\ DOMAIN files' = (DOMAIN files) \cup {PathOf(DailyId(now))}
          /\ StatOK(files, PathOf(DailyId(now))) =>
                /\ files' = files
                /\ ret'.note = Load(files, DailyId(now)).note]_vars

\* C1 witness: a second CreateDaily of the day has returned the stored note.
C1_Witness ==
    /\ ret.op = "CreateDaily" /\ ret.err = "none" /\ ret.flag
    /\ ret.note.ID = DailyId(now)
    /\ ret.note.Tags = <<DailyTag>>

\* C2: a Create that succeeds returns the first id of slug, slug-2, slug-3,
\* ... that is not stored, stores it, and leaves every stored entry as it was.
C2_CreateProbes ==
    [][(ret'.op \in {"Create", "CreateSave"} /\ ret'.err = "none") =>
          LET made == IF ret'.op = "Create" THEN ret'.note ELSE ret'.before
          IN  /\ made.ID = FirstFree(files, ret'.id)
              /\ PathOf(made.ID) \notin DOMAIN files
              /\ DOMAIN files' = (DOMAIN files) \cup {PathOf(made.ID)}
              /\ Keeps(files, files')]_vars

\* C2 witness: a Create of a title whose slug is stored has returned slug-2.
C2_Witness ==
    /\ ret.op = "Create" /\ ret.err = "none" /\ ret.flag
    /\ ret.note.ID = Suffixed(SlugA, 2)
    /\ {PathOf(SlugA), PathOf(Suffixed(SlugA, 2))} \subseteq DOMAIN files

\* C4: a Delete that succeeds leaves the id absent, so that Load of it fails
\* with not-found; the id stays absent over every step that is not a create
\* or a write of that very file; a Delete of an absent id fails and leaves
\* the repository as it was.
C4_DeleteThenLoad ==
    [][/\ (ret'.op = "Delete" /\ ret'.err = "none") =>
             /\ StatOK(files, PathOf(ret'.id))
             /\ Load(files', ret'.id).err = "notexist"
             /\ DOMAIN files' = (DOMAIN files) \ {PathOf(ret'.id)}
             /\ Keeps(files', files)
       /\ (ret'.op = "Delete" /\ ~StatOK(files, PathOf(ret'.id))) =>
             ret'.err = "notexist" /\ files' = files
       /\ \A id \in AskedIds(files) :
             (Load(files, id).err = "notexist" /\ Load(files', id).err # "notexist") =>
                /\ ret'.op \in {"Create", "CreateSave", "CreateDaily", "External"}
                /\ ret'.op = "External" => ret'.id = id
                /\ ret'.op = "Create" => ret'.note.ID = id
                /\ ret'.op = "CreateSave" => ret'.note.ID = id
                /\ ret'.op = "CreateDaily" => ret'.note.ID = id
       /\ ret'.op = "Load" =>
             (ret'.err = "notexist" <=> ~StatOK(files, PathOf(ret'.id)))]_vars

\* C4 witness: a Delete has succeeded and Load of the id fails with not-found.
C4_Witness ==
    /\ ret.op = "Delete" /\ ret.err = "none"
    /\ Load(files, ret.id).err = "notexist"

\* C5: Save leaves the id, the location, the created instant, the title, the
\* tags and the body of the note it is handed; it sets updated to the instant
\* of the Save, not earlier than the previous updated; it sets the raw text
\* to header + body and writes that at the note's location, leaving every
\* other entry as it was.
C5_SaveFrame ==
    ret.op = "CreateSave" =>
        LET b == ret.before
            a == ret.note
        IN  /\ a.ID = b.ID
            /\ a.Filename = b.Filename
            /\ a.Created = b.Created
            /\ a.Title = b.Title
            /\ a.Tags = b.Tags
            /\ a.Body = b.Body
            /\ a.Updated = now
            /\ a.Updated >= b.Updated
            /\ a.Raw = BuildFrontmatter(a) \o a.Body
            /\ ret.err = "none" =>
                  /\ files[a.Filename] = Entry("file", a.Raw, now)
                  /\ NoteFromRaw(a.ID, a.Filename, files[a.Filename].raw, now).note.Created
                        = WholeSeconds(b.Created)

\* C5 witness: a Save of a created note, at a later instant than its Create.
C5_Witness ==
    /\ ret.op = "CreateSave" /\ ret.err = "none"
    /\ ret.note.Updated > ret.before.Updated
    /\ ret.note.Body = TemplateBody

\* C6: the note a Create returns has created equal to updated.
C6_CreatedEqualsUpdated ==
    (ret.op = "Create" /\ ret.err = "none") => ret.note.Created = ret.note.Updated

\* C7: in what LoadAll returns, the note at position i is not older than the
\* note at a later position j.
C7_NewestFirst ==
    (ret.op = "LoadAll" /\ ret.err = "none") =>
        \A i, j \in 1..Len(ret.notes) :
            i < j => ret.notes[i].Updated >= ret.notes[j].Updated

\* C7 witness: LoadAll has returned notes of different updated instants.
C7_Witness ==
    /\ ret.op = "LoadAll" /\ ret.err = "none"
    /\ Len(ret.notes) >= 2
    /\ ret.notes[1].Updated > ret.notes[Len(ret.notes)].Updated

\* The ids of the entries that are regular, readable files named <id>.md.
ReadableIds(fs) ==
    {IdOfPath(name) : name \in {n \in DOMAIN fs : HasSuffix(n, ExtMd) /\ fs[n].kind = "file"}}

\* C8: LoadAll fails only when the directory cannot be read; otherwise it
\* returns, whatever the other entries are, one note for every regular
\* readable file named <id>.md and nothing else.
C8_PerEntry ==
    ret.op = "LoadAll" =>
        IF ~ret.flag THEN ret.err # "none"
        ELSE /\ ret.err = "none"
             /\ {ret.notes[i].ID : i \in 1..Len(ret.notes)} = ReadableIds(files)
             /\ Len(ret.notes) = Cardinality(ReadableIds(files))

\* C9: Load of a stored, readable file returns a note whatever its header
\* is; without an opening or without a closing delimiter the title is the
\* id, created and updated are the file's modification time and the body is
\* the whole content.
C9_HeaderNeverFails ==
    (/\ ret.op = "Load"
     /\ StatOK(files, PathOf(ret.id))
     /\ files[PathOf(ret.id)].kind = "file") =>
        LET e == files[PathOf(ret.id)]
            content == ReplaceAll(e.raw, <<"\r", "\n">>, <<"\n">>)
        IN  /\ ret.err = "none"
            /\ ret.note.ID = ret.id
            /\ (~HasPrefix(content, Dashes) \/ ~Contains(SliceFrom(content, 3), NLDashes)) =>
                  /\ ret.note.Title = ret.id
                  /\ ret.note.Created = e.mtime
                  /\ ret.note.Updated = e.mtime
                  /\ ret.note.Body = content

(***************************************************************************)
(* Claims about the session.                                               *)
(***************************************************************************)
Affirmative == {"y", "Y", "enter"}
Cancelling == {"n", "N", "esc", "q"}

\* C10 as stated: in ConfirmDelete every key other than y, Y and enter returns
\* the session to List and clears the delete target, and changes nothing
\* else of the session or the repository.
C10_AnyOtherKeyCancels ==
    [][(ret'.op = "Key" /\ app.state = "ConfirmDelete" /\ ret'.id[1] \notin Affirmative) =>
          /\ app' = [app EXCEPT !.state = "List", !.deleteTarget = NoNote]
          /\ files' = files]_vars

\* C10 amended: in ConfirmDelete the keys n, N, esc and q return the session
\* to List and clear the delete target; every other key but y, Y and enter
\* leaves the session in ConfirmDelete with its target; in both cases nothing
\* is deleted, no command is issued and nothing else of the session changes
\* but the status message, which the key clears.
C10_CancelKeysCancel ==
    [][(ret'.op = "Key" /\ app.state = "ConfirmDelete" /\ ret'.id[1] \notin Affirmative) =>
          /\ files' = files
          /\ pending' = pending /\ inbox' = inbox /\ proc' = proc
          /\ app' = IF ret'.id[1] \in Cancelling
                    THEN [app EXCEPT !.statusMsg = NoStatus, !.state = "List",
                                     !.deleteTarget = NoNote]
                    ELSE [app EXCEPT !.statusMsg = NoStatus]]_vars

\* C10 witness: j has been pressed in ConfirmDelete (the list has no key that
\* leads there but d) and the session is still there, with its target.
C10_Witness ==
    /\ ret.op = "Key" /\ ret.id = <<"j">>
    /\ app.state = "ConfirmDelete"
    /\ app.deleteTarget # NoNote
    /\ PathOf(app.deleteTarget.ID) \in DOMAIN files

\* The step hands the key to Update while the session is in state.
KeyIn(state, key) == ret'.op = "Key" /\ ret'.id = <<key>> /\ app.state = state

\* C11: the session removes a file of the directory only in the step that
\* takes y, Y or enter in ConfirmDelete, and then at most the file of the
\* delete target; that step returns to List and issues the command that
\* reloads the notes.  The key d in List removes nothing and issues nothing:
\* it moves to ConfirmDelete with the note under the cursor as the target,
\* or stays in List when there is no such note.
C11_DeleteOnlyOnConfirm ==
    [][ /\ (ret'.op \in {"Key", "Deliver"} /\ (DOMAIN files) \ (DOMAIN files') # {}) =>
              /\ ret'.op = "Key" /\ app.state = "ConfirmDelete" /\ ret'.id[1] \in Affirmative
              /\ app.deleteTarget # NoNote
              /\ DOMAIN files' = (DOMAIN files) \ {PathOf(app.deleteTarget.ID)}
              /\ \A name \in DOMAIN files' : files'[name] = files[name]
        /\ (ret'.op = "Key" /\ app.state = "ConfirmDelete" /\ ret'.id[1] \in Affirmative) =>
              /\ app'.state = "List"
              /\ pending' = Append(pending, cmdLoadNotes)
        /\ KeyIn("List", "d") =>
              /\ files' = files /\ pending' = pending
              /\ IF app.cursor < Len(app.filtered)
                 THEN /\ app'.state = "ConfirmDelete"
                      /\ app'.deleteTarget = app.filtered[app.cursor + 1]
                 ELSE app'.state = "List" /\ app'.deleteTarget = app.deleteTarget ]_vars

\* C11 witness: y has been pressed in ConfirmDelete: the session is in List,
\* the file of a note of the snapshot is gone and the reload is pending.
C11_Witness ==
    /\ ret.op = "Key" /\ ret.id = <<"y">>
    /\ app.state = "List"
    /\ pending = <<cmdLoadNotes>>
    /\ \E i \in 1..Len(app.allNotes) : PathOf(app.allNotes[i].ID) \notin DOMAIN files

\* C16: when the editor returns and its reload has succeeded, the snapshot
\* and the list are what the reload has read; the session is in Viewer on the
\* freshly loaded note of the edited id if there is one and in List if there
\* is none; when the reload has failed the session is in List.
C16_EditorReturn ==
    [][(ret'.op = "Deliver" /\ Head(inbox).kind = "editorClosed") =>
          IF Head(inbox).id = <<>> THEN app'.state = "List"
          ELSE /\ app'.allNotes = Head(inbox).notes
               /\ app'.filtered = Head(inbox).notes
               /\ IF PlacesOf(Head(inbox).notes, Head(inbox).id) # {}
                  THEN /\ app'.state = "Viewer"
                       /\ app'.current \in {Head(inbox).notes[i] :
                                              i \in PlacesOf(Head(inbox).notes, Head(inbox).id)}
                  ELSE app'.state = "List"]_vars

\* C20: once every command the session has issued has run and its message
\* has been handled, the snapshot is what LoadAll reads from the directory:
\* no path that creates, edits or deletes a note leaves the session without
\* the reload of what it has done.
C20_SnapshotCurrent ==
    (proc = "running" /\ pending = <<>> /\ inbox = <<>> /\ editing = NoCmd) =>
        app.allNotes \in {r.notes : r \in LoadAll(files, TRUE)}

\* The note of the snapshot that the key enter opens: the note under the
\* cursor of the list or of the search, the first note titled as the outgoing
\* link under the cursor of the links panel, or the backlink under it.
Chosen(a) ==
    CASE a.state \in {"List", "Search"} ->
            IF a.cursor < Len(a.filtered) THEN a.filtered[a.cursor + 1] ELSE NoNote
      [] a.state = "Links" /\ a.linksCursor < Len(a.linksOut) ->
            IF TitledAs(a.allNotes, a.linksOut[a.linksCursor + 1]) # {}
            THEN a.allNotes[Min(TitledAs(a.allNotes, a.linksOut[a.linksCursor + 1]))]
            ELSE NoNote
      [] a.state = "Links" /\ a.linksCursor - Len(a.linksOut) < Len(a.linksBack) ->
            a.linksBack[a.linksCursor - Len(a.linksOut) + 1]
      [] OTHER -> NoNote

\* C17: the key enter on a note of the list, of the search or of the links
\* panel loads the file of the note's id as it is at that moment: the viewer
\* shows what Load returns, not the note of the snapshot, and when Load fails
\* the session stays where it is with the note it had.
C17_OpenLoads ==
    [][(ret'.op = "Key" /\ ret'.id = <<"enter">> /\ Chosen(app) # NoNote) =>
          IF Load(files, Chosen(app).ID).err = "none"
          THEN app'.state = "Viewer" /\ app'.current = Load(files, Chosen(app).ID).note
          ELSE /\ app'.state = app.state /\ app'.current = app.current
               /\ app'.statusMsg # NoStatus]_vars

\* C17 witness: enter has opened, from the search, a note whose file another
\* program has rewritten since the snapshot was loaded.
C17_Witness ==
    /\ ret.op = "Key" /\ ret.id = <<"enter">>
    /\ app.state = "Viewer"
    /\ "search" \in app.focused
    /\ app.current = Load(files, app.current.ID).note
    /\ \A i \in 1..Len(app.allNotes) : app.allNotes[i] # app.current

\* The step hands g to updateList or updateViewer.
PressG == ret'.op = "Key" /\ ret'.id = <<"g">> /\ app.state \in {"List", "Viewer"}

ListRows(a) == IF a.height - HeaderRows < 1 THEN 1 ELSE a.height - HeaderRows

\* C19: after j, down, k, up or G in List the cursor is not below 0 and not
\* past the last note; and when the key has moved the cursor, the offset is
\* the cursor if the cursor is above the old offset, the cursor - H + 1 if the
\* cursor is at the old offset + H or past it, and the old offset otherwise.
C19_Window ==
    [][(ret'.op = "Key" /\ app.state = "List"
            /\ ret'.id[1] \in {"j", "down", "k", "up", "G"}) =>
          /\ app'.cursor >= 0
          /\ app.filtered # <<>> => app'.cursor <= Len(app.filtered) - 1
          /\ (app'.cursor # app.cursor \/ (ret'.id[1] = "G" /\ app.filtered # <<>>)) =>
                app'.listOffset =
                    IF app'.cursor < app.listOffset THEN app'.cursor
                    ELSE IF app'.cursor >= app.listOffset + ListRows(app)
                    THEN app'.cursor - ListRows(app) + 1
                    ELSE app.listOffset]_vars

(***************************************************************************)
(* The session of a user with or without a key of the AI service, who      *)
(* tries the keys that open the AI panels; beside it the client is called  *)
(* as a program that uses it would call it.                                *)
(***************************************************************************)
CredKeysIn(state) ==
    CASE state = "List" -> {"enter", "@"}
      [] state = "Viewer" -> {"a", "A", "esc"}
      [] state \in {"AIPanel", "VaultAI"} -> {"esc"}
      [] OTHER -> {}

\* A program calls Ask or AskVault of the client of the session.
ClientCall(op, outcome) ==
    /\ op \in {"Ask", "AskVault"}
    /\ ret' = Called(op, Ask(app.available, outcome))
    /\ UNCHANGED <<files, now>>
    /\ UNCHANGED <<fmVars, uiVars>>

CredInit ==
    /\ files \in StartDirs
    /\ now = 0
    /\ ret = NoRet
    /\ app \in {NewApp(available) : available \in BOOLEAN}
    /\ pending = <<cmdLoadNotes>>
    /\ inbox = <<>>
    /\ editing = NoCmd
    /\ proc = "running"
    /\ seen = NoSeen
    /\ FMIdle

CredNext ==
    \/ \E key \in CredKeysIn(app.state) : Key(key, 0)
    \/ \E i \in 1..Len(pending) : RunLoadNotes(i, TRUE)
    \/ \E op \in {"Ask", "AskVault"}, outcome \in AskOutcomes : ClientCall(op, outcome)
    \/ Deliver

SpecCred == CredInit /\ [][CredNext]_vars

(***************************************************************************)
(* The session of a user who asks the AI service while the service fails   *)
(* in every way it can fail: the request does not get through or times     *)
(* out, the body cannot be read or is not a response, the service reports  *)
(* an error, or it returns no candidate.                                   *)
(***************************************************************************)
GatewayResults ==
    { Result("timeout", "none", FALSE, "none", <<>>),
      Result("none", "read", FALSE, "none", <<>>),
      Result("none", "none", FALSE, "none", <<>>),
      Result("none", "none", TRUE, "quota", <<>>),
      Result("none", "none", TRUE, "quota", << << <<"r">> >> >>),
      Result("none", "none", TRUE, "none", <<>>),
      Result("none", "none", TRUE, "none", << <<>> >>),
      Result("none", "none", TRUE, "none", << << <<"r">> >> >>) }

GatewayKeysIn(state) ==
    CASE state = "List" -> {"enter", "@"}
      [] state = "Viewer" -> {"a", "esc"}
      [] state \in {"AIPanel", "VaultAI"} -> {"x", "enter", "esc"}
      [] OTHER -> {}

GatewayNext ==
    \/ \E key \in GatewayKeysIn(app.state) : Key(key, 0)
    \/ \E i \in 1..Len(pending) : RunLoadNotes(i, TRUE)
    \/ \E i \in 1..Len(pending), res \in GatewayResults : RunAskAI(i, Respond(res))
    \/ \E i \in 1..Len(pending), res \in GatewayResults : RunAskVault(i, Respond(res))
    \/ Deliver

SpecGateway == AIInit /\ [][GatewayNext]_vars

(***************************************************************************)
(* The session of a user who searches two notes, one titled A with the     *)
(* body b and one titled x with the body x, opens what is found and        *)
(* reloads the list, while another program removes notes.                  *)
(***************************************************************************)
SearchNames == {StartName(1), PathOf(RawPlain)}

SearchKeysIn(state) ==
    CASE state = "List" -> {"/", "r"}
      [] state = "Search" -> {"a", "x", "backspace", "ctrl+n", "enter", "esc"}
      [] state = "Viewer" -> {"esc"}
      [] OTHER -> {}

SearchInit ==
    /\ files = [name \in SearchNames |->
                    IF name = StartName(1) THEN StartNote(1) ELSE Entry("file", RawPlain, 0)]
    /\ now = 0
    /\ ret = NoRet
    /\ app = NewApp(FALSE)
    /\ pending = <<cmdLoadNotes>>
    /\ inbox = <<>>
    /\ editing = NoCmd
    /\ proc = "running"
    /\ seen = NoSeen
    /\ FMIdle

SearchNext ==
    \/ \E key \in SearchKeysIn(app.state) : Key(key, 0)
    \/ \E i \in 1..Len(pending) : RunLoadNotes(i, TRUE)
    \/ Deliver
    \/ \E name \in SearchNames : ExternalRemove(name)

SpecSearch == SearchInit /\ [][SearchNext]_vars

(***************************************************************************)
(* The session of a user who reloads the list, opens notes and edits them  *)
(* while the directory cannot always be read and another program removes   *)
(* notes.  The user types nothing between the key e and the editor.        *)
(***************************************************************************)
ReadKeysIn(state) ==
    CASE state = "List" -> {"r", "/", "enter"}
      [] state = "Search" -> {"enter", "esc"}
      [] state = "Viewer" -> {"e", "esc"}
      [] OTHER -> {}

ReadNames == {StartName(1), StartName(2)}

ReadInit ==
    /\ files = [name \in ReadNames |-> IF name = StartName(1) THEN StartNote(1) ELSE StartNote(2)]
    /\ now = 0
    /\ ret = NoRet
    /\ app = NewApp(FALSE)
    /\ pending = <<cmdLoadNotes>>
    /\ inbox = <<>>
    /\ editing = NoCmd
    /\ proc = "running"
    /\ seen = NoSeen
    /\ FMIdle

ReadNext ==
    \/ \E key \in ReadKeysIn(app.state) : InFlight("editor") = 0 /\ Key(key, 0)
    \/ \E i \in 1..Len(pending), readable \in BOOLEAN : RunLoadNotes(i, readable)
    \/ \E i \in 1..Len(pending) : RunEditor(i)
    \/ \E readable \in BOOLEAN : EditorExit("none", readable)
    \/ Deliver
    \/ \E name \in ReadNames : ExternalRemove(name)

SpecRead == ReadInit /\ [][ReadNext]_vars

(***************************************************************************)
(* The session of a user who moves in a list that is longer than the       *)
(* window, searches, deletes notes and resizes the terminal.               *)
(***************************************************************************)
WindowKeysIn(state) ==
    CASE state = "List" -> {"j", "k", "G", "/", "d", "r"}
      [] state = "Search" -> {"esc"}
      [] state = "ConfirmDelete" -> {"y", "n"}
      [] OTHER -> {}

WindowNext ==
    \/ \E key \in WindowKeysIn(app.state) : Key(key, 0)
    \/ \E h \in Heights \cup {HeaderRows + 1} : Resize(h)
    \/ \E i \in 1..Len(pending) : RunLoadNotes(i, TRUE)
    \/ Deliver

SpecWindow == Init /\ [][WindowNext]_vars

(***************************************************************************)
(* ExtractLinks on the bodies made of a few pieces: links with a target,   *)
(* the link without one, text, and markers that open or close nothing.     *)
(***************************************************************************)
LinkTo(target) == OpenLink \o target \o CloseLink

WholePieces == {LinkTo(<<"A">>), LinkTo(<<"b">>), LinkTo(<<>>), <<"x">>}

LinkPieces == WholePieces \cup {OpenLink, CloseLink}

\* "[[A]] appears twice [[A]]. Also [[]]."
TwicePieces ==
    << LinkTo(<<"A">>), <<" ", "a", "p", "p", "e", "a", "r", "s", " ", "t", "w", "i", "c", "e", " ">>, LinkTo(<<"A">>),
       <<".", " ", "A", "l", "s", "o", " ">>, LinkTo(<<>>), <<".">> >>

LinksInit ==
    /\ fmPc = "in"
    /\ fmNote \in SeqsUpTo(LinkPieces, MaxPieces) \cup {TwicePieces}
    /\ fmText = <<>> /\ fmParsed = NoParse
    /\ StoreIdle
    /\ UIIdle

\* ExtractLinks is called with the body the pieces make.
LinksExtract ==
    /\ fmPc = "in"
    /\ fmText' = ExtractLinks(Join(fmNote, <<>>))
    /\ fmPc' = "out"
    /\ UNCHANGED <<fmNote, fmParsed>>
    /\ UNCHANGED <<storeVars, uiVars>>

LinksNext == LinksExtract

SpecLinks == LinksInit /\ [][LinksNext]_vars

(***************************************************************************)
(* Backlinks on a few notes whose bodies are links to A, a and b, asked    *)
(* for the notes that link to A, a or b; and on the three notes of the     *)
(* example: A links to B, B to nothing, C to B and A.                      *)
(***************************************************************************)
BackTitles == {<<"A">>, <<"a">>, <<"b">>}

BackBodies ==
    {<<>>, <<"A">>, LinkTo(<<"A">>), LinkTo(<<"a">>), LinkTo(<<"b">>),
     LinkTo(<<"a">>) \o <<" ">> \o LinkTo(<<"b">>), LinkTo(<<"A", "b">>)}

BackNote(title, body) == Note(title, title, <<>>, 0, 0, body, <<>>, PathOf(title))

BackNotes == {BackNote(title, body) : title \in {<<"A">>, <<"b">>}, body \in BackBodies}

ExampleNotes ==
    << BackNote(<<"A">>, LinkTo(<<"B">>)),
       BackNote(<<"B">>, <<"n", "o">>),
       BackNote(<<"C">>, LinkTo(<<"B">>) \o <<" ">> \o LinkTo(<<"A">>)) >>

BackInit ==
    /\ fmPc = "in"
    /\ fmNote \in {[title |-> title, allNotes |-> allNotes] :
                        title \in BackTitles, allNotes \in SeqsUpTo(BackNotes, MaxNotes)}
                   \cup {[title |-> title, allNotes |-> ExampleNotes] :
                            title \in {<<"A">>, <<"B">>, <<"C">>}}
    /\ fmText = <<>> /\ fmParsed = NoParse
    /\ StoreIdle
    /\ UIIdle

\* Backlinks is called.
BackCall ==
    /\ fmPc = "in"
    /\ fmText' = Backlinks(fmNote.title, fmNote.allNotes)
    /\ fmPc' = "out"
    /\ UNCHANGED <<fmNote, fmParsed>>
    /\ UNCHANGED <<storeVars, uiVars>>

BackNext == BackCall

SpecBack == BackInit /\ [][BackNext]_vars

(***************************************************************************)
(* AskVault builds the context of a question from vaults of about maxNotes *)
(* notes, one of whose bodies is about truncateAt characters long, in      *)
(* ASCII or in characters of two bytes.                                    *)
(***************************************************************************)
\* The two bytes of a character outside ASCII, for instance U+00E9.
LeadByte == "C3"
ContByte == "A9"

Narrow(n) == [i \in 1..n |-> "a"]
Wide(n) == [i \in 1..2 * n |-> IF i % 2 = 1 THEN LeadByte ELSE ContByte]

VaultSizes == {maxNotes - 1, maxNotes, maxNotes + 1, maxNotes + 2}

VaultBodyPool ==
    {Narrow(n) : n \in {0, 1, truncateAt - 1, truncateAt, truncateAt + 1, truncateAt + 100}}
        \cup {Wide(n) : n \in {1, truncateAt \div 2, truncateAt \div 2 + 1, truncateAt - 1,
                                truncateAt, truncateAt + 1}}
        \cup {Narrow(1) \o Wide(truncateAt \div 2), Wide(truncateAt) \o Narrow(1)}

\* A vault of count notes: the note at place has the body, the others a
\* body of one character.
VaultOf(count, place, body) ==
    [i \in 1..count |-> NoteContext(<<"t">>, <<>>, IF i = place THEN body ELSE Narrow(1))]

VaultInit ==
    /\ fmPc = "in"
    /\ fmNote \in {VaultOf(count, place, body) :
                        count \in VaultSizes, place \in {1, maxNotes - 1}, body \in VaultBodyPool}
    /\ fmText = <<>> /\ fmParsed = NoParse
    /\ StoreIdle
    /\ UIIdle

\* AskVault writes the notes into the prompt.
VaultSend ==
    /\ fmPc = "in"
    /\ fmText' = VaultBodies(fmNote)
    /\ fmPc' = "sent"
    /\ UNCHANGED <<fmNote, fmParsed>>
    /\ UNCHANGED <<storeVars, uiVars>>

VaultNext == VaultSend

SpecVault == VaultInit /\ [][VaultNext]_vars

(***************************************************************************)
(* Claims about the AI panels.                                             *)
(***************************************************************************)
\* The session is in an AI panel whose loading flag is set.
Loading(a) ==
    \/ a.state = "AIPanel" /\ a.aiLoading
    \/ a.state = "VaultAI" /\ a.vaultAILoading

\* C12: at most one question of a scope is in flight: of the questions about
\* the open note that have been issued, at most one has not been completed,
\* and so of the questions about the vault.
C12_OneInFlight == InFlight("askAI") <= 1 /\ InFlight("askVault") <= 1

\* C13: the completion of a question clears the loading flag of its scope; a
\* success writes the response into the last entry of the history of the
\* scope, which is the entry of the question that was asked, and leaves the
\* other entries alone; a failure records the error and leaves the history
\* unchanged.
C13_Completion ==
    [][ /\ (ret'.op = "Deliver" /\ Head(inbox).kind = "aiResponse") =>
              /\ ~app'.aiLoading
              /\ IF Head(inbox).err = "none"
                 THEN /\ app.aiHistory # <<>>
                      /\ app.aiHistory[Len(app.aiHistory)].question = Head(inbox).asked
                      /\ app'.aiHistory = [app.aiHistory EXCEPT ![Len(app.aiHistory)].answer =
                                                                   Head(inbox).response]
                 ELSE app'.aiError = Head(inbox).err /\ app'.aiHistory = app.aiHistory
        /\ (ret'.op = "Deliver" /\ Head(inbox).kind = "vaultAIResponse") =>
              /\ ~app'.vaultAILoading
              /\ IF Head(inbox).err = "none"
                 THEN /\ app.vaultAIHistory # <<>>
                      /\ app.vaultAIHistory[Len(app.vaultAIHistory)].question = Head(inbox).asked
                      /\ app'.vaultAIHistory =
                            [app.vaultAIHistory EXCEPT ![Len(app.vaultAIHistory)].answer =
                                                          Head(inbox).response]
                 ELSE /\ app'.vaultAIError = Head(inbox).err
                      /\ app'.vaultAIHistory = app.vaultAIHistory ]_vars

\* The keys a user may try in an AI panel.
PanelKeys == {"x", " ", "enter", "esc", "ctrl+c", "q", "h", "?", "tab"}

\* C14 as stated: while a panel is loading the user can still move to another
\* view: some key changes the state away from the panel.
C14_CanLeaveWhileLoading ==
    (proc = "running" /\ Loading(app)) =>
        ENABLED (\E key \in PanelKeys : Key(key, 0) /\ app'.state # app.state)

\* C14 amended: while a panel is loading the session still takes every key,
\* and every key leaves it in the panel: nothing of the session changes but
\* the status message, which the key clears, and no command is issued.
C14_KeysStayWhileLoading ==
    [][(ret'.op = "Key" /\ Loading(app)) =>
          /\ app' = [app EXCEPT !.statusMsg = NoStatus]
          /\ pending' = pending /\ inbox' = inbox /\ proc' = proc
          /\ files' = files]_vars

\* C14 witness: a character has been typed in the vault panel while it was
\* loading, and the panel is still loading with its input empty.
C14_Witness ==
    /\ ret.op = "Key" /\ ret.id = <<"x">>
    /\ app.state = "VaultAI" /\ app.vaultAILoading
    /\ app.vaultAIInput = <<>>
    /\ InFlight("askVault") = 1

\* C15: escape in an AI panel that is not loading returns to the view the
\* panel was opened from, Viewer for the panel of the note and List for the
\* panel of the vault; escape in a panel that is loading leaves the session
\* where it is (the key clears the status message, as every key does).
C15_EscapeWhenIdle ==
    [][ /\ KeyIn("AIPanel", "esc") =>
              app' = IF app.aiLoading THEN [app EXCEPT !.statusMsg = NoStatus]
                     ELSE [app EXCEPT !.statusMsg = NoStatus, !.state = "Viewer",
                                      !.focused = app.focused \ {"ai"}]
        /\ KeyIn("VaultAI", "esc") =>
              app' = IF app.vaultAILoading THEN [app EXCEPT !.statusMsg = NoStatus]
                     ELSE [app EXCEPT !.statusMsg = NoStatus, !.state = "List",
                                      !.focused = app.focused \ {"vaultAI"}] ]_vars

\* C15 witness: escape has been pressed in the panel of the note while its
\* question was in flight, and the session is still in the panel.
C15_Witness ==
    /\ ret.op = "Key" /\ ret.id = <<"esc">>
    /\ app.state = "AIPanel" /\ app.aiLoading
    /\ InFlight("askAI") = 1

(***************************************************************************)
(* Claims about the failures of the AI service.                            *)
(***************************************************************************)
\* The keys that open an AI panel: the step hands one of them to Update.
OpensPanel ==
    KeyIn("Viewer", "a") \/ KeyIn("Viewer", "A") \/ KeyIn("List", "@")

\* C21: without a key of the service every call of Ask and of AskVault
\* returns the error of the missing configuration and sends no request; and
\* the keys that open an AI panel, a and A in Viewer and @ in List, leave the
\* session in its view: they set the error status (and the last key, as
\* every key of these views does), change nothing else and issue no command.
C21_NoCredential ==
    /\ [](( /\ ~app.available
            /\ ret.op \in {"Ask", "AskVault"} ) =>
                ret.err = "nokey" /\ ~ret.flag)
    /\ [][(~app.available /\ OpensPanel) =>
              /\ app' = [app EXCEPT !.statusMsg = NoKeyStatus, !.statusIsError = TRUE,
                                    !.lastKey = ret'.id[1]]
              /\ pending' = pending /\ inbox' = inbox /\ proc' = proc
              /\ files' = files]_vars

\* C21 witness: without a key of the service the key a has been pressed in
\* Viewer, and the session is in Viewer with the error status.
C21_Witness ==
    /\ ~app.available
    /\ ret.op = "Key" /\ ret.id = <<"a">>
    /\ app.state = "Viewer" /\ app.statusMsg = NoKeyStatus /\ app.statusIsError

\* The service has failed: the request did not get through, the body could
\* not be read or understood, the service reports an error, or there is no
\* candidate.
Failed(result) ==
    \/ result.post # "none" \/ result.read # "none" \/ ~result.parses
    \/ result.error # "none"
    \/ result.candidates = <<>>

\* C22: every failure of the service comes back from the client as an error
\* and no text; the command puts it in a completion message, and when the
\* session gets a completion message with an error it records the error for
\* the scope of the message, clears the loading flag of that scope and
\* changes nothing else: it stays in its view.  The session never stops.
C22_FailureSurfaces ==
    /\ \A res \in GatewayResults :
          Failed(res) <=> (Respond(res).err # "none")
    /\ [](proc = "running")
    /\ [][ /\ (ret'.op = "RunAskAI" /\ ret'.err # "none") =>
                 /\ Len(inbox') = Len(inbox) + 1
                 /\ inbox'[Len(inbox')].kind = "aiResponse"
                 /\ inbox'[Len(inbox')].err = ret'.err
                 /\ app' = app
           /\ (ret'.op = "RunAskVault" /\ ret'.err # "none") =>
                 /\ Len(inbox') = Len(inbox) + 1
                 /\ inbox'[Len(inbox')].kind = "vaultAIResponse"
                 /\ inbox'[Len(inbox')].err = ret'.err
                 /\ app' = app
           /\ (ret'.op = "Deliver" /\ Head(inbox).kind = "aiResponse"
                   /\ Head(inbox).err # "none") =>
                 app' = [app EXCEPT !.aiLoading = FALSE, !.aiError = Head(inbox).err]
           /\ (ret'.op = "Deliver" /\ Head(inbox).kind = "vaultAIResponse"
                   /\ Head(inbox).err # "none") =>
                 app' = [app EXCEPT !.vaultAILoading = FALSE,
                                   !.vaultAIError = Head(inbox).err] ]_vars

\* C22 witness: the service has returned no candidate to a question about
\* the vault, the session has got the completion message, and it is in the
\* panel of the vault with the error and without the loading flag.
C22_Witness ==
    /\ ret.op = "Deliver"
    /\ app.state = "VaultAI" /\ ~app.vaultAILoading
    /\ app.vaultAIError = "no response from API"
    /\ proc = "running"

\* The number of characters of a string, and the string of its first k
\* characters.
RuneCount(str) == Cardinality({i \in 1..Len(str) : str[i] # ContByte})

RunePrefix(str, k) ==
    LET starts == {i \in 1..Len(str) : str[i] # ContByte}
    IN  IF Cardinality(starts) <= k THEN str
        ELSE LET next == CHOOSE i \in starts : Cardinality({j \in starts : j < i}) = k
             IN  SubSeq(str, 1, next - 1)

\* C23: in the context of a vault of more than maxNotes notes every body of
\* more than truncateAt characters is its first truncateAt characters and
\* the mark, and every other body is whole; in the context of a vault of
\* maxNotes notes or fewer every body is whole.
C23_TruncatesByCharacters ==
    fmPc = "sent" =>
        \A i \in 1..Len(fmNote) :
            fmText[i] = IF Len(fmNote) > maxNotes /\ RuneCount(fmNote[i].Body) > truncateAt
                        THEN RunePrefix(fmNote[i].Body, truncateAt) \o TruncateMark
                        ELSE fmNote[i].Body

(***************************************************************************)
(* Claims about the wiki-links.                                            *)
(***************************************************************************)
\* The elements of a finite set of numbers in ascending order.
Ascending(S) ==
    CHOOSE q \in [1..Cardinality(S) -> S] : \A i, j \in 1..Cardinality(S) : i < j => q[i] < q[j]

\* The piece is a link to a target that is not empty.
IsLink(piece) == piece \in {LinkTo(t) : t \in {<<"A">>, <<"b">>}}

\* The targets of the links among pieces, each where it occurs first.
FirstTargets(pieces) ==
    LET firsts == {i \in 1..Len(pieces) :
                      IsLink(pieces[i]) /\ \A j \in 1..(i - 1) : pieces[j] # pieces[i]}
        at == Ascending(firsts)
    IN  [k \in 1..Cardinality(firsts) |-> Slice(pieces[at[k]], 2, Len(pieces[at[k]]) - 2)]

\* C24: the targets ExtractLinks returns are not empty, no two of them are
\* equal, and each stands between the markers in the body; of a body whose
\* pieces are links and text it returns the targets of all its links with a
\* target, each once, in the order in which they occur first; and of the
\* body "[[A]] appears twice [[A]]. Also [[]]." it returns the one target A.
C24_LinksInOrder ==
    fmPc = "out" =>
        LET body == Join(fmNote, <<>>)
        IN  /\ \A k \in 1..Len(fmText) :
                  fmText[k] # <<>> /\ Contains(body, LinkTo(fmText[k]))
            /\ \A j, k \in 1..Len(fmText) : j < k => fmText[j] # fmText[k]
            /\ (\A i \in 1..Len(fmNote) : fmNote[i] \in WholePieces) =>
                    fmText = FirstTargets(fmNote)
            /\ fmNote = TwicePieces => fmText = << <<"A">> >>

\* C24 witness: ExtractLinks has returned the target A, and nothing else, of
\* a body that holds the link to A twice and the link without a target.
C24_Witness ==
    /\ fmPc = "out"
    /\ fmNote = <<LinkTo(<<"A">>), LinkTo(<<>>), LinkTo(<<"A">>)>>
    /\ fmText = << <<"A">> >>

\* A string in lower case.
Lower(str) == [k \in 1..Len(str) |-> ToLowerChar(str[k])]

\* The body holds a link whose target is title but for the case of its
\* letters.
LinksTo(body, title) ==
    \E target \in {<<"A">>, <<"a">>, <<"b">>, <<"B">>, <<"A", "b">>} :
        Contains(body, LinkTo(target)) /\ Lower(target) = Lower(title)

\* The titles of the notes of a sequence.
TitlesOf(notes) == {notes[k].Title : k \in 1..Len(notes)}

Count(q, x) == Cardinality({k \in 1..Len(q) : q[k] = x})

\* C26: in Search with an empty query the filtered list is the snapshot, in
\* its order; with any query every note of the filtered list is a note of
\* the snapshot and is in the list once; and a key that changes the query
\* sets the cursor to 0.
C26_SearchFilters ==
    /\ []( app.state = "Search" =>
              /\ app.searchQuery = <<>> => app.filtered = app.allNotes
              /\ \A k \in 1..Len(app.filtered) :
                    /\ Count(app.allNotes, app.filtered[k]) >= 1
                    /\ Count(app.filtered, app.filtered[k]) = 1 )
    /\ [][(ret'.op = "Key" /\ app.state = "Search" /\ app'.searchQuery # app.searchQuery) =>
              app'.cursor = 0]_vars

\* C26 witness: with the cursor on the second of two notes the user has
\* typed x, and the search shows the one note that holds an x with the
\* cursor on it.
C26_Witness ==
    /\ ret.op = "Key" /\ ret.id = <<"x">>
    /\ app.state = "Search" /\ app.searchQuery = <<"x">>
    /\ Len(app.allNotes) = 2 /\ Len(app.filtered) = 1
    /\ app.filtered[1].Title = RawPlain
    /\ app.cursor = 0

\* The step hands to Update the message of a reload that could not read the
\* directory: of the reload command, or of the reload after the editor.
ReloadFailed(kind) ==
    /\ ret'.op = "Deliver"
    /\ Head(inbox).kind = kind /\ Head(inbox).err = "io"

\* The step hands enter to Update on a note whose file Load cannot read.
OpenFailed ==
    /\ ret'.op = "Key" /\ ret'.id = <<"enter">>
    /\ Chosen(app) # NoNote
    /\ Load(files, Chosen(app).ID).err # "none"

\* The snapshot, the filtered list, the cursor, the open note and the state
\* are in b what they are in a, and b shows an error.
KeptWithError(a, b) ==
    /\ b.allNotes = a.allNotes /\ b.filtered = a.filtered /\ b.cursor = a.cursor
    /\ b.current = a.current /\ b.state = a.state
    /\ b.statusMsg # NoStatus /\ b.statusIsError

C28_NeverLocked ==
    /\ [](app.aiLoading => InFlight("askAI") > 0)
    /\ [](app.vaultAILoading => InFlight("askVault") > 0)
    /\ (InFlight("askAI") > 0) ~>
            (ret.op = "Deliver" /\ InFlight("askAI") = 0 /\ ~app.aiLoading)
    /\ (InFlight("askVault") > 0) ~>
            (ret.op = "Deliver" /\ InFlight("askVault") = 0 /\ ~app.vaultAILoading)

\* C28 witness: the session has got the completion message of a question
\* about the open note; it is in the panel of the note, which is not loading
\* and holds the answer.
C28_Witness ==
    /\ ret.op = "Deliver"
    /\ app.state = "AIPanel" /\ ~app.aiLoading
    /\ InFlight("askAI") = 0
    /\ Len(app.aiHistory) = 1 /\ app.aiHistory[1].answer = <<"r">>

\* C29: the cursor is a place of the filtered list, or the list is empty and
\* the cursor is 0; and the program never stops on an index out of range.
C29_CursorValid ==
    /\ IF app.filtered = <<>> THEN app.cursor = 0
       ELSE 0 <= app.cursor /\ app.cursor < Len(app.filtered)
    /\ proc # "panicked"

\* C30: in List with a filtered list that is not empty the cursor is in the
\* window: not above the offset and less than H rows below it.
C30_CursorInWindow ==
    (app.state = "List" /\ app.filtered # <<>>) =>
        /\ app.listOffset <= app.cursor
        /\ app.cursor < app.listOffset + ListRows(app)

(***************************************************************************)
(* Claims about what the session keeps between its events.                 *)
(***************************************************************************)
\* C31: whenever a step leaves the session in Viewer or AIPanel on a note
\* whose id differs from the id of the note that was open before the step,
\* the per-note history is empty after the step.
C31_HistoryOfOpenNote ==
    [][(app'.state \in {"Viewer", "AIPanel"} /\ app'.current.ID # app.current.ID) =>
          app'.aiHistory = <<>>]_vars

\* C32: while the session is in Search, the filtered list is what runSearch
\* gives for the snapshot and the query (the snapshot itself for the empty
\* query), also after the message of a reload.
C32_SearchCurrent ==
    app.state = "Search" => app.filtered = runSearch(app.allNotes, app.searchQuery)

\* C33: whenever the session is in List, the filtered list is the snapshot.
C33_ListUnfiltered ==
    app.state = "List" => app.filtered = app.allNotes

\* C34: the key d takes the note under the cursor as the delete target; the
\* target stays the same note as long as the session is in ConfirmDelete,
\* whatever is delivered meanwhile; and the step that takes y, Y or enter
\* there removes the file of the target's id, if the directory still holds
\* it, and leaves every other entry as it was.
C34_DeletesTheTarget ==
    /\ [][(KeyIn("List", "d") /\ app'.state = "ConfirmDelete") =>
              app'.deleteTarget = app.filtered[app.cursor + 1]]_vars
    /\ [][(app.state = "ConfirmDelete" /\ app'.state = "ConfirmDelete") =>
              app'.deleteTarget = app.deleteTarget]_vars
    /\ [][(ret'.op = "Key" /\ app.state = "ConfirmDelete" /\ ret'.id[1] \in Affirmative) =>
              /\ DOMAIN files' = (DOMAIN files) \ {PathOf(app.deleteTarget.ID)}
              /\ \A name \in DOMAIN files' : files'[name] = files[name]]_vars

\* C34 witness: y has deleted the target although the list, reloaded after
\* the key d, had another note under the cursor: that note is still stored.
C34_Witness ==
    /\ ret.op = "Key" /\ ret.id = <<"y">>
    /\ app.state = "List"
    /\ app.statusMsg = Status("deleted ", TitleA)
    /\ Len(app.filtered) = 2 /\ app.cursor < 2
    /\ PathOf(app.filtered[app.cursor + 1].ID) \in DOMAIN files
    /\ Cardinality(DOMAIN files) = 1

\* C35: the per-note loading flag is set only in AIPanel and the vault's
\* only in VaultAI (so never both), and the completion of a question is
\* handed to Update only while the session is in the panel of its scope.
C35_LoadingInPanel ==
    /\ [](app.aiLoading => app.state = "AIPanel")
    /\ [](app.vaultAILoading => app.state = "VaultAI")
    /\ [][(ret'.op = "Deliver" /\ Head(inbox).kind = "aiResponse") =>
              app.state = "AIPanel"]_vars
    /\ [][(ret'.op = "Deliver" /\ Head(inbox).kind = "vaultAIResponse") =>
              app.state = "VaultAI"]_vars

\* C36: in Viewer, AIPanel and Links a note is open; the open note, once
\* set, is never reset to none; and every question about the open note that
\* has been dispatched holds a note, so that its command never stops the
\* program for the lack of one.
C36_CurrentSet ==
    /\ [](app.state \in {"Viewer", "AIPanel", "Links"} => app.current # NoNote)
    /\ [][app.current # NoNote => app'.current # NoNote]_vars
    /\ [](\A i \in 1..Len(pending) : pending[i].kind = "askAI" => pending[i].filename # <<>>)
    /\ [][ret'.op = "RunAskAI" => proc' = "running"]_vars

\* C36 witness: the editor has returned to a session that was in the AI
\* panel with a question dispatched, the file of the note being gone: the
\* session is in List and the note is still the open note.
C36_Witness ==
    /\ ret.op = "Deliver" /\ app.state = "List"
    /\ StartName(1) \notin DOMAIN files /\ app.current # NoNote
    /\ app.aiLoading
    /\ \E i \in 1..Len(pending) : pending[i].kind = "askAI"

\* C37: a delete target is set exactly when the session is in ConfirmDelete,
\* and a step that leaves ConfirmDelete leaves the target cleared.
C37_TargetIffConfirm ==
    /\ [](app.deleteTarget # NoNote <=> app.state = "ConfirmDelete")
    /\ [][(app.state = "ConfirmDelete" /\ app'.state # "ConfirmDelete") =>
              app'.deleteTarget = NoNote]_vars

\* Every entry of the history h that the history g still has, has kept its
\* question and, if it was filled, its answer.
EntriesKept(h, g) ==
    \A i \in 1..Len(h) :
        i <= Len(g) =>
            /\ g[i].question = h[i].question
            /\ h[i].answer # <<>> => g[i].answer = h[i].answer

\* The completion msg of a scope whose history goes from h to g changes at
\* most the last entry, and an answer it brings finds that entry unfilled.
OnlyLastFilled(h, g, msg) ==
    /\ Len(g) = Len(h)
    /\ \A i \in 1..(Len(h) - 1) : g[i] = h[i]
    /\ (msg.err = "none" /\ h # <<>>) => h[Len(h)].answer = <<>>

\* C38: over every step the entries of both histories keep their questions
\* and their filled answers, and the vault history loses no entry; the
\* completion of a question leaves the history of the other scope as it
\* was, changes at most the last entry of its own, and never writes over an
\* answer.
C38_HistoriesStable ==
    [][ /\ EntriesKept(app.aiHistory, app'.aiHistory)
        /\ EntriesKept(app.vaultAIHistory, app'.vaultAIHistory)
        /\ Len(app'.vaultAIHistory) >= Len(app.vaultAIHistory)
        /\ (ret'.op = "Deliver" /\ Head(inbox).kind = "aiResponse") =>
              /\ app'.vaultAIHistory = app.vaultAIHistory
              /\ OnlyLastFilled(app.aiHistory, app'.aiHistory, Head(inbox))
        /\ (ret'.op = "Deliver" /\ Head(inbox).kind = "vaultAIResponse") =>
              /\ app'.aiHistory = app.aiHistory
              /\ OnlyLastFilled(app.vaultAIHistory, app'.vaultAIHistory, Head(inbox)) ]_vars

\* The notes of a list.
Members(list) == {list[k] : k \in 1..Len(list)}

\* C39: every note of the filtered list is a note of the snapshot; and the
\* message of a reload or of the editor's return either leaves the snapshot
\* and the list as they were or replaces both by the notes it brings.
C39_FilteredOfSnapshot ==
    /\ [](Members(app.filtered) \subseteq Members(app.allNotes))
    /\ [][(ret'.op = "Deliver" /\ Head(inbox).kind \in {"notesLoaded", "editorClosed"}) =>
              \/ app'.allNotes = app.allNotes /\ app'.filtered = app.filtered
              \/ app'.allNotes = Head(inbox).notes /\ app'.filtered = Head(inbox).notes]_vars

\* C39 witness: a reload has completed in the search view, after another
\* program has removed the only note the query matched: the snapshot and the
\* list are the one note that is left.
C39_Witness ==
    /\ ret.op = "Deliver" /\ app.state = "Search"
    /\ app.searchQuery = <<"x">>
    /\ Len(app.allNotes) = 1 /\ app.filtered = app.allNotes
    /\ ~FuzzyMatch(app.searchQuery, SearchTarget(app.allNotes[1]))

\* C40: the collision loop of Create is left after finitely many turns,
\* whatever the directory holds and whatever os.Stat answers.
C40_CreateTerminates == <>(fmPc = "done")

====
